---- MODULE Spec2Model ----
(***************************************************************************)
(* A model of coreason-catalog: the Federation Broker pipeline             *)
(* (services/broker.py), the ACL gate and the policy evaluator             *)
(* (services/policy_engine.py), the provenance generator                   *)
(* (services/provenance.py), the vector store's upsert                     *)
(* (services/vector_store.py) and the singleton providers                  *)
(* (dependencies.py).  Each part has its own specification; the variables  *)
(* of the other parts stay at rest in it.                                  *)
(*                                                                         *)
(* The embedder, the vector index, the policy oracle and the dispatcher    *)
(* are the broker's injected collaborators: each call either returns or    *)
(* raises, and the model draws that outcome nondeterministically.          *)
(***************************************************************************)
EXTENDS Integers, Sequences, FiniteSets, TLC

\* ------------------------------------------------------------------ bounds

\* How many lines of an SSE stream are read in one behaviour.
MaxLines == 3

\* Calls made on HTTP clients by one dispatcher.
MaxClientCalls == 3

\* register_source calls made one after the other.
MaxRegistrations == 2

\* How many calls of one singleton provider are made in one behaviour.
MaxProviderCalls == 4

\* How many add_source calls are made in one behaviour.
MaxUpserts == 3

\* The longest list of candidates VectorStore.search returns in the model.
MaxCandidates == 2

\* The longest results list handed to generate_provenance on its own.
MaxResults == 3

\* ------------------------------------------------------------- input data

\* The invocations of dispatch_query a broker may have in flight, and the
\* one the serial specifications make.
Invocations == {"q1", "q2"}

Queries == {"q1"}

Intents == {"find patients", "find trials"}

\* query_id = uuid.uuid4(): a fresh value per invocation.
UuidPool == [q \in Invocations |-> "uuid-" \o q]

\* Registered manifests.  acls is the attribute check_access reads.
Catalog ==
  { [urn |-> "urn:us", acls |-> {"group:users"}, geo_location |-> "US",
     sensitivity |-> "PII", owner_group |-> "US_Team",
     access_policy |-> "allow { input.subject.location == 'US' }"],
    [urn |-> "urn:eu", acls |-> {"group:admins"}, geo_location |-> "EU",
     sensitivity |-> "GxP_LOCKED", owner_group |-> "EU_Team",
     access_policy |-> "allow { input.subject.location == 'EU' }"],
    [urn |-> "urn:open", acls |-> {}, geo_location |-> "US",
     sensitivity |-> "PUBLIC", owner_group |-> "Public",
     access_policy |-> "allow { true }"] }

Urns == {m.urn : m \in Catalog}

\* The callers.  claims.is_service_account is "True", "False" or "absent"
\* (the claim is not in the mapping).
UserContexts ==
  { [user_id |-> "u1", groups |-> {"group:users"},
     claims |-> [is_service_account |-> "absent"]],
    [user_id |-> "u2", groups |-> {},
     claims |-> [is_service_account |-> "False"]],
    [user_id |-> "sa", groups |-> {},
     claims |-> [is_service_account |-> "True"]] }

Limits == {1, MaxCandidates}

\* What Dispatcher.dispatch returns, and the exceptions it raises.
Payloads == { [data |-> "ok"], [data |-> "rows"] }

DispatchErrors == { [type |-> "RuntimeError", msg |-> "Connection Timeout"] }

\* datetime.now(timezone.utc).isoformat()
Timestamps == {"2025-01-01T00:00:00.000001+00:00",
               "2025-01-01T00:00:02.500000+00:00"}

Statuses == {"SUCCESS", "ERROR", "BLOCKED_BY_POLICY", "PARTIAL_CONTENT"}

\* ----------------------------------------------------------------- state

VARIABLES
  pc,               \* where each dispatch_query invocation stands
  request,          \* its arguments: intent, user_context, limit
  query_id,         \* its query_id
  candidates,       \* what search returned
  idx,              \* the governance loop's position in candidates
  allowed_sources,  \* the candidates that passed governance
  tasks,            \* one query_source task per allowed source
  response,         \* the CatalogResponse returned
  outcome,          \* "pending", "returned" or "raised" (to the caller)
  calls,            \* the calls made on the collaborators
  provIn,           \* generate_provenance called on its own: arguments
  provOut,          \* ... and its return value
  aclIn,            \* check_access called on its own: arguments
  aclOut,           \* ... and its return value
  table,            \* the rows of the LanceDB table "sources", oldest first
  writers,          \* where each thread calling add_source stands
  storeLog,         \* the add_source calls that have ended, in order
  instance,         \* thread_safe_singleton: the closure's instance
  lock,             \* ... its Lock: "free" or the thread holding it
  callers,          \* ... where each thread calling wrapper stands
  factoryCalls,     \* ... how often func() returned, and raised
  providerLog,      \* ... the wrapper calls that have ended, in order
  evIn,             \* evaluate_policy: the engine's opa_path and the arguments
  evPc,             \* ... where the call stands
  files,            \* ... the temporary files that exist
  created,          \* ... the temporary files the call has created
  oracleRuns,       \* ... the runs of the oracle binary
  evOut,            \* ... what the call returned or raised
  ssePc,            \* SSEQueryDispatcher.dispatch: where the call stands
  sseRead,          \* ... the lines read from the stream so far
  buffer,           \* ... the contents of the current event's data: lines
  sseResults,       \* ... results, the payloads collected
  attempts,         \* ... the texts handed to json.loads
  sseOut,           \* ... what the call returned or raised
  routeIn,          \* POST /v1/query: the function reached, body and header
  routePc,          \* ... where the request stands
  routeCall,        \* ... the dispatch_query call made
  routeOut,         \* ... the status answered
  ctorClient,       \* SSEQueryDispatcher: the client the constructor got
  sseClient,        \* ... self.client
  ownsClient,       \* ... self._owns_client
  lcPc,             \* ... open or closed
  clientLog,        \* ... the calls made on clients
  regDim,           \* RegistryService: the embedder's embedding_dim
  regPc,            \* ... where register_source stands
  regCall,          \* ... the call in progress
  regIndex,         \* ... the rows of the vector index
  regLog            \* ... the calls that ended

brokerVars == <<pc, request, query_id, candidates, idx, allowed_sources,
                tasks, response, outcome, calls>>

provVars == <<provIn, provOut>>

aclVars == <<aclIn, aclOut>>

storeVars == <<table, writers, storeLog>>

singletonVars == <<instance, lock, callers, factoryCalls, providerLog>>

evalVars == <<evIn, evPc, files, created, oracleRuns, evOut>>

sseVars == <<ssePc, sseRead, buffer, sseResults, attempts, sseOut>>

routeVars == <<routeIn, routePc, routeCall, routeOut>>

lifecycleVars == <<ctorClient, sseClient, ownsClient, lcPc, clientLog>>

registryVars == <<regDim, regPc, regCall, regIndex, regLog>>

\* The parts around the catalog's core: the dispatcher, the HTTP surface,
\* the registry.
outerVars == <<sseVars, routeVars, lifecycleVars, registryVars>>

\* What no step of the broker touches.
nonBrokerVars == <<provVars, aclVars, storeVars, singletonVars, evalVars,
                   outerVars>>

\* What no step of the vector store touches.
nonStoreVars == <<brokerVars, provVars, aclVars, singletonVars, evalVars,
                  outerVars>>

\* What no step of a singleton provider touches.
nonSingletonVars == <<brokerVars, provVars, aclVars, storeVars, evalVars,
                      outerVars>>

\* What no step of evaluate_policy touches.
nonEvalVars == <<brokerVars, provVars, aclVars, storeVars, singletonVars,
                 outerVars>>

coreVars == <<brokerVars, provVars, aclVars, storeVars, singletonVars,
              evalVars>>

\* What no step of SSEQueryDispatcher.dispatch touches.
nonSseVars == <<coreVars, routeVars, lifecycleVars, registryVars>>

\* What no step of query_catalog touches.
nonRouteVars == <<coreVars, sseVars, lifecycleVars, registryVars>>

\* What neither the constructor nor close() of the dispatcher touches.
nonLifecycleVars == <<coreVars, sseVars, routeVars, registryVars>>

\* What no step of register_source touches.
nonRegistryVars == <<coreVars, sseVars, routeVars, lifecycleVars>>

vars == <<coreVars, outerVars>>

\* --------------------------------------------------------------- helpers

Min(a, b) == IF a < b THEN a ELSE b

Range(s) == {s[i] : i \in 1..Len(s)}

\* The sequences over S, without repetition, of length at most n.
RECURSIVE DistinctSeqs(_, _)
DistinctSeqs(S, n) ==
  IF n = 0 THEN {<<>>}
  ELSE LET shorter == DistinctSeqs(S, n - 1)
           longest == {t \in shorter : Len(t) = n - 1}
       IN  shorter \cup UNION {{Append(s, x) : x \in S \ Range(s)} : s \in longest}

\* The sequences over S of length at most n.
RECURSIVE SeqsUpTo(_, _)
SeqsUpTo(S, n) ==
  IF n = 0 THEN {<<>>}
  ELSE LET shorter == SeqsUpTo(S, n - 1)
       IN  shorter \cup {Append(s, x) : s \in {t \in shorter : Len(t) = n - 1},
                                        x \in S}

\* ------------------------------------------------------------ provenance
\* services/provenance.py.  The document is a Python dict, here a function
\* on its keys; json.dumps(..., sort_keys=True) turns it into text, here the
\* sequence of its JSON tokens.

\* A JSON string literal.
Quote(s) == "\"" \o s \o "\""

\* The keys of the document in code-point order, the order sort_keys uses.
SortedKeys ==
  << "@context", "@graph", "@id", "@type", "@value", "coreason",
     "coreason:queryId", "prov", "prov:endedAtTime", "prov:used",
     "prov:wasGeneratedBy", "xsd" >>

KeysOf(d) == SelectSeq(SortedKeys, LAMBDA k : k \in DOMAIN d)

\* The token sequences of parts, separated by commas.
RECURSIVE Join(_)
Join(parts) ==
  IF parts = <<>> THEN <<>>
  ELSE IF Len(parts) = 1 THEN parts[1]
  ELSE parts[1] \o <<",">> \o Join(Tail(parts))

\* A list of strings.
DumpStrList(l) ==
  <<"[">> \o Join([i \in 1..Len(l) |-> <<Quote(l[i])>>]) \o <<"]">>

\* A dict whose values are strings.
DumpStrDict(d) ==
  LET ks == KeysOf(d)
  IN  <<"{">> \o Join([i \in 1..Len(ks) |-> <<Quote(ks[i]), ":", Quote(d[ks[i]])>>])
      \o <<"}">>

\* One member of a graph node: the end time is a dict, prov:used a list and
\* every other value a string.
DumpMember(k, v) ==
  <<Quote(k), ":">> \o
  (IF k = "prov:endedAtTime" THEN DumpStrDict(v)
   ELSE IF k = "prov:used" THEN DumpStrList(v)
   ELSE <<Quote(v)>>)

DumpNode(d) ==
  LET ks == KeysOf(d)
  IN  <<"{">> \o Join([i \in 1..Len(ks) |-> DumpMember(ks[i], d[ks[i]])]) \o <<"}">>

\* json.dumps(provenance_doc, sort_keys=True)
JsonDumps(doc) ==
  LET graph == doc["@graph"]
  IN  <<"{", Quote("@context"), ":">> \o DumpStrDict(doc["@context"])
      \o <<",", Quote("@graph"), ":", "[">>
      \o Join([i \in 1..Len(graph) |-> DumpNode(graph[i])])
      \o <<"]", "}">>

\* Mutant: every result that is not an error counts as used.
UsedSourcesNotError(results) ==
  LET ok == SelectSeq(results, LAMBDA r : r.status # "ERROR")
  IN  [i \in 1..Len(ok) |-> ok[i].source_urn]

\* The loop over results: the URNs of the results whose status is SUCCESS,
\* in the order of results.
UsedSources(results) ==
  LET ok == SelectSeq(results, LAMBDA r : r.status = "SUCCESS")
  IN  [i \in 1..Len(ok) |-> ok[i].source_urn]

\* The provenance document before serialization.
ProvenanceDoc(qid, results, timestamp) ==
  LET context == [k \in {"prov", "coreason", "xsd"} |->
                    CASE k = "prov" -> "http://www.w3.org/ns/prov#"
                      [] k = "coreason" -> "https://coreason.ai/provenance#"
                      [] k = "xsd" -> "http://www.w3.org/2001/XMLSchema#"]
      activity_id == "urn:coreason:activity:" \o qid
      base == ("@id" :> activity_id) @@ ("@type" :> "prov:Activity") @@
              ("prov:endedAtTime" :>
                 (("@value" :> timestamp) @@ ("@type" :> "xsd:dateTime")))
      response_id == "urn:coreason:entity:response:" \o qid
      response_entity ==
              ("@id" :> response_id) @@ ("@type" :> "prov:Entity") @@
              ("prov:wasGeneratedBy" :> activity_id) @@
              ("coreason:queryId" :> qid)
      used_sources == UsedSources(results)
      activity == IF used_sources # <<>>
                  THEN base @@ ("prov:used" :> used_sources)
                  ELSE base
  IN  ("@context" :> context) @@ ("@graph" :> <<activity, response_entity>>)

\* ProvenanceService.generate_provenance, with the clock's reading.
GenerateProvenance(qid, results, timestamp) ==
  JsonDumps(ProvenanceDoc(qid, results, timestamp))

\* Reading a signature back (json.loads, then the Activity node's prov:used).
UsedKeyAt(sig) == {i \in 1..Len(sig) : sig[i] = Quote("prov:used")}

HasUsed(sig) == UsedKeyAt(sig) # {}

UsedOf(sig) ==
  LET k == CHOOSE i \in UsedKeyAt(sig) : TRUE
      close == CHOOSE j \in (k + 2)..Len(sig) :
                 sig[j] = "]" /\ \A h \in (k + 2)..(j - 1) : sig[h] # "]"
      items == {sig[h] : h \in {g \in (k + 3)..(close - 1) : sig[g] # ","}}
  IN  {u \in Urns : Quote(u) \in items}

\* ------------------------------------------------------------ ACL gate

\* PolicyEngine.check_access: the service-account claim must be the boolean
\* True ("is True"); otherwise the asset's acls and the user's groups must
\* share a group.
\* Mutant: the claim is tested for truthiness instead of identity with True.
check_accessTruthy(asset, user_context) ==
  IF user_context.claims.is_service_account \in {"True", "1", "'true'"}
  THEN TRUE
  ELSE (asset.acls \cap user_context.groups) # {}

check_access(asset, user_context) ==
  IF user_context.claims.is_service_account = "True"
  THEN TRUE
  ELSE (asset.acls \cap user_context.groups) # {}

\* ---------------------------------------------------------------- broker
\* FederationBroker.dispatch_query.  The coroutine runs without interruption
\* up to "await asyncio.gather"; from there its query_source tasks run
\* concurrently, each suspended inside Dispatcher.dispatch.

NoResponse ==
  [query_id |-> "none", aggregated_results |-> <<>>,
   provenance_signature |-> <<>>]

\* The calls an invocation made on its collaborators; completed is the order
\* in which its dispatches ended, as the indexes of their tasks; during is
\* the set of invocations that were suspended in their dispatches when it
\* was called.
NoCalls ==
  [embed |-> <<>>, search |-> <<>>, policy |-> <<>>, dispatch |-> <<>>,
   completed |-> <<>>, during |-> {}]

\* CatalogResponse(query_id=..., aggregated_results=..., provenance_signature=...)
CatalogResponse(qid, results, signature) ==
  [query_id |-> qid, aggregated_results |-> results,
   provenance_signature |-> signature]

\* Reading response.partial_content: CatalogResponse declares no such field
\* and dispatch_query sets none, so no response carries a true one.
PartialContent(resp) ==
  "partial_content" \in DOMAIN resp /\ resp.partial_content = TRUE

\* SourceResult(source_urn=..., status=..., data=...)
SourceResult(urn, status, data) ==
  [source_urn |-> urn, status |-> status, data |-> data]

\* str(e)
Str(e) == e.msg

\* embedding_service.embed_text(intent), when it returns
Embedding(intent) == <<"embedding", intent>>

\* What vector_store.search(intent_embedding, limit=limit) may return: at
\* most limit manifests, one per URN.
SearchResults(limit) == DistinctSeqs(Catalog, Min(limit, MaxCandidates))

\* input_data of the policy gate for one candidate.
InputData(user_context, source) ==
  [subject |-> user_context,
   object |-> [urn |-> source.urn, geo |-> source.geo_location,
               sensitivity |-> source.sensitivity, owner |-> source.owner_group],
   action |-> "QUERY"]

BrokerInit ==
  /\ pc = [q \in Invocations |-> "idle"]
  /\ request = [q \in Invocations |->
                  [intent |-> "", user_context |-> [user_id |-> ""], limit |-> 0]]
  /\ query_id = [q \in Invocations |-> "none"]
  /\ candidates = [q \in Invocations |-> <<>>]
  /\ idx = [q \in Invocations |-> 0]
  /\ allowed_sources = [q \in Invocations |-> <<>>]
  /\ tasks = [q \in Invocations |-> <<>>]
  /\ response = [q \in Invocations |-> NoResponse]
  /\ outcome = [q \in Invocations |-> "pending"]
  /\ calls = [q \in Invocations |-> NoCalls]

\* The event loop runs one coroutine at a time: q may run its synchronous
\* part only while no other invocation is inside its own.
LoopFree(q) ==
  \A p \in Invocations \ {q} : pc[p] \in {"idle", "gather", "done"}

\* return CatalogResponse(...): the invocation ends with a response.
Return(q, resp) ==
  /\ response' = [response EXCEPT ![q] = resp]
  /\ outcome' = [outcome EXCEPT ![q] = "returned"]
  /\ pc' = [pc EXCEPT ![q] = "done"]

\* An exception leaves dispatch_query: the invocation ends without response.
Raise(q) ==
  /\ outcome' = [outcome EXCEPT ![q] = "raised"]
  /\ pc' = [pc EXCEPT ![q] = "done"]
  /\ UNCHANGED response

\* dispatch_query is called with one of the given arguments:
\* query_id = uuid.uuid4().
SubmitWith(q, intents, users, limits) ==
  /\ pc[q] = "idle"
  /\ UNCHANGED nonBrokerVars
  /\ LoopFree(q)
  /\ \E i \in intents, u \in users, l \in limits :
       request' = [request EXCEPT ![q] =
                     [intent |-> i, user_context |-> u, limit |-> l]]
  /\ query_id' = [query_id EXCEPT ![q] = UuidPool[q]]
  /\ pc' = [pc EXCEPT ![q] = "embed"]
  /\ calls' = [calls EXCEPT ![q].during =
                 {p \in Invocations \ {q} : pc[p] = "gather"}]
  /\ UNCHANGED <<candidates, idx, allowed_sources, tasks, response, outcome>>

Submit(q) == SubmitWith(q, Intents, UserContexts, Limits)

LogCall(q, kind, entry) ==
  calls' = [calls EXCEPT ![q][kind] = Append(@, entry)]

\* embed_text returns.
EmbedReturns(q) ==
  /\ pc[q] = "embed"
  /\ UNCHANGED nonBrokerVars
  /\ LogCall(q, "embed", [text |-> request[q].intent, result |-> "returned"])
  /\ pc' = [pc EXCEPT ![q] = "search"]
  /\ UNCHANGED <<request, query_id, candidates, idx, allowed_sources, tasks,
                 response, outcome>>

\* Mutant: the failure is swallowed and the pipeline goes on to search.
OnEmbeddingFailureFallsThrough(q) ==
  /\ pc' = [pc EXCEPT ![q] = "search"]
  /\ UNCHANGED <<response, outcome, candidates, idx>>

\* except Exception around embed_text.
OnEmbeddingFailure(q) ==
  /\ Return(q, CatalogResponse(query_id[q], <<>>, <<"ERROR: Embedding Failed">>))
  /\ UNCHANGED <<candidates, idx>>

\* embed_text raises.
EmbedRaises(q) ==
  /\ pc[q] = "embed"
  /\ UNCHANGED nonBrokerVars
  /\ LogCall(q, "embed", [text |-> request[q].intent, result |-> "raise"])
  /\ OnEmbeddingFailure(q)
  /\ UNCHANGED <<request, query_id, allowed_sources, tasks>>

\* vector_store.search returns the candidates.
SearchReturns(q) ==
  /\ pc[q] = "search"
  /\ UNCHANGED nonBrokerVars
  /\ LogCall(q, "search",
             [vector |-> Embedding(request[q].intent), limit |-> request[q].limit,
              result |-> "returned"])
  /\ \E c \in SearchResults(request[q].limit) :
       candidates' = [candidates EXCEPT ![q] = c]
  /\ idx' = [idx EXCEPT ![q] = 1]
  /\ pc' = [pc EXCEPT ![q] = "govern"]
  /\ UNCHANGED <<request, query_id, allowed_sources, tasks, response, outcome>>

\* Mutant: a failed search counts as a search without hits.
OnSearchFailureNoHits(q) ==
  /\ candidates' = [candidates EXCEPT ![q] = <<>>]
  /\ idx' = [idx EXCEPT ![q] = 1]
  /\ pc' = [pc EXCEPT ![q] = "govern"]
  /\ UNCHANGED <<response, outcome>>

\* except Exception around vector_store.search.
OnSearchFailure(q) ==
  /\ Return(q, CatalogResponse(query_id[q], <<>>, <<"ERROR: Search Failed">>))
  /\ UNCHANGED <<candidates, idx>>

\* vector_store.search raises.
SearchRaises(q) ==
  /\ pc[q] = "search"
  /\ UNCHANGED nonBrokerVars
  /\ LogCall(q, "search",
             [vector |-> Embedding(request[q].intent), limit |-> request[q].limit,
              result |-> "raise"])
  /\ OnSearchFailure(q)
  /\ UNCHANGED <<request, query_id, allowed_sources, tasks>>

\* The candidate the governance loop is at.
Source(q) == candidates[q][idx[q]]

\* The loop goes on to the next candidate.
NextCandidate(q) ==
  /\ idx' = [idx EXCEPT ![q] = @ + 1]
  /\ UNCHANGED <<pc, outcome, response>>

\* The call policy_engine.evaluate_policy(source.access_policy, input_data).
PolicyCall(q, result) ==
  LogCall(q, "policy",
          [policy |-> Source(q).access_policy,
           input |-> InputData(request[q].user_context, Source(q)),
           result |-> result])

\* Mutant: allowed_sources is one list for all invocations.
OnPolicyAllowedShared(q) ==
  /\ allowed_sources' = [p \in Invocations |->
                           Append(allowed_sources[p], Source(q))]
  /\ NextCandidate(q)

\* if is_allowed: allowed_sources.append(source)
OnPolicyAllowed(q) ==
  /\ allowed_sources' = [allowed_sources EXCEPT ![q] = Append(@, Source(q))]
  /\ NextCandidate(q)

\* Mutant: a service account is let through a policy that denies.
OnPolicyDeniedBypass(q) ==
  /\ allowed_sources' =
       IF request[q].user_context.claims.is_service_account = "True"
       THEN [allowed_sources EXCEPT ![q] = Append(@, Source(q))]
       ELSE allowed_sources
  /\ NextCandidate(q)

\* else: the source is blocked by policy (logged only).
OnPolicyDenied(q) ==
  /\ UNCHANGED allowed_sources
  /\ NextCandidate(q)

\* Mutant: fail open, the candidate is allowed.
OnPolicyExceptionFailOpen(q) ==
  /\ allowed_sources' = [allowed_sources EXCEPT ![q] = Append(@, Source(q))]
  /\ NextCandidate(q)

\* Mutant: no handler, the exception leaves dispatch_query.
OnPolicyExceptionPropagates(q) ==
  /\ Raise(q)
  /\ UNCHANGED <<allowed_sources, idx>>

\* except Exception: fail closed, continue.
OnPolicyException(q) ==
  /\ UNCHANGED allowed_sources
  /\ NextCandidate(q)

InGovernance(q) == pc[q] = "govern" /\ idx[q] <= Len(candidates[q])

\* evaluate_policy returns True for the candidate.
PolicyAllows(q) ==
  /\ InGovernance(q)
  /\ UNCHANGED nonBrokerVars
  /\ PolicyCall(q, "True")
  /\ OnPolicyAllowed(q)
  /\ UNCHANGED <<request, query_id, candidates, tasks>>

\* evaluate_policy returns False for the candidate.
PolicyDenies(q) ==
  /\ InGovernance(q)
  /\ UNCHANGED nonBrokerVars
  /\ PolicyCall(q, "False")
  /\ OnPolicyDenied(q)
  /\ UNCHANGED <<request, query_id, candidates, tasks>>

\* evaluate_policy raises for the candidate.
PolicyRaises(q) ==
  /\ InGovernance(q)
  /\ UNCHANGED nonBrokerVars
  /\ PolicyCall(q, "raise")
  /\ OnPolicyException(q)
  /\ UNCHANGED <<request, query_id, candidates, tasks>>

GovernanceOver(q) == pc[q] = "govern" /\ idx[q] > Len(candidates[q])

\* if not allowed_sources: the response over the empty result set.
NoAllowedSources(q) ==
  /\ GovernanceOver(q)
  /\ UNCHANGED nonBrokerVars
  /\ allowed_sources[q] = <<>>
  /\ \E ts \in Timestamps :
       Return(q, CatalogResponse(query_id[q], <<>>,
                                 GenerateProvenance(query_id[q], <<>>, ts)))
  /\ UNCHANGED <<request, query_id, candidates, idx, allowed_sources, tasks, calls>>

\* A query_source task that has not finished has no SourceResult yet.
NoResult == [source_urn |-> "none", status |-> "none", data |-> [none |-> TRUE]]

\* tasks = [query_source(s) for s in allowed_sources]; await asyncio.gather.
FanOut(q) ==
  /\ GovernanceOver(q)
  /\ UNCHANGED nonBrokerVars
  /\ allowed_sources[q] # <<>>
  /\ tasks' = [tasks EXCEPT ![q] =
                 [i \in 1..Len(allowed_sources[q]) |->
                    [state |-> "pending", ret |-> [kind |-> "none"],
                     result |-> NoResult]]]
  /\ pc' = [pc EXCEPT ![q] = "gather"]
  /\ UNCHANGED <<request, query_id, candidates, idx, allowed_sources, response,
                 outcome, calls>>

\* query_source starts: it calls dispatcher.dispatch(source, intent) and is
\* suspended in it.
TaskStart(q, i) ==
  /\ LoopFree(q)
  /\ UNCHANGED nonBrokerVars
  /\ i \in 1..Len(tasks[q])
  /\ tasks[q][i].state = "pending"
  /\ tasks' = [tasks EXCEPT ![q][i].state = "running"]
  /\ LogCall(q, "dispatch",
             [urn |-> allowed_sources[q][i].urn, intent |-> request[q].intent])
  /\ UNCHANGED <<pc, request, query_id, candidates, idx, allowed_sources,
                 response, outcome>>

\* The task ends with its SourceResult.
Finish(q, i, ret, result) ==
  /\ tasks' = [tasks EXCEPT ![q][i] =
                 [state |-> "done", ret |-> ret, result |-> result]]
  /\ UNCHANGED <<pc, outcome, response>>

\* data = await dispatch(...) returned: status SUCCESS with the data.
OnDispatchReturn(q, i, data) ==
  Finish(q, i, [kind |-> "returned", value |-> data],
         SourceResult(allowed_sources[q][i].urn, "SUCCESS", data))

\* Mutant: no handler, the exception leaves the task and, through gather,
\* dispatch_query.
OnDispatchExceptionPropagates(q, i, e) ==
  /\ tasks' = [tasks EXCEPT ![q][i] =
                 [state |-> "done", ret |-> [kind |-> "raised", exc |-> e],
                  result |-> NoResult]]
  /\ Raise(q)

\* Mutant: the envelope carries the exception's type, not its message.
OnDispatchExceptionTypeName(q, i, e) ==
  Finish(q, i, [kind |-> "raised", exc |-> e],
         SourceResult(allowed_sources[q][i].urn, "ERROR", [error |-> e.type]))

\* Mutant: the failed dispatch is tried again.
OnDispatchExceptionRetries(q, i, e) ==
  /\ tasks' = [tasks EXCEPT ![q][i].state = "pending"]
  /\ UNCHANGED <<pc, outcome, response>>

\* except Exception as e: status ERROR with {"error": str(e)}.
OnDispatchException(q, i, e) ==
  Finish(q, i, [kind |-> "raised", exc |-> e],
         SourceResult(allowed_sources[q][i].urn, "ERROR", [error |-> Str(e)]))

Running(q, i) ==
  /\ LoopFree(q)
  /\ i \in 1..Len(tasks[q])
  /\ tasks[q][i].state = "running"

\* dispatcher.dispatch returns its data.
DispatchReturns(q, i) ==
  /\ Running(q, i)
  /\ UNCHANGED nonBrokerVars
  /\ \E d \in Payloads : OnDispatchReturn(q, i, d)
  /\ LogCall(q, "completed", i)
  /\ UNCHANGED <<request, query_id, candidates, idx, allowed_sources>>

\* dispatcher.dispatch raises.
DispatchRaises(q, i) ==
  /\ Running(q, i)
  /\ UNCHANGED nonBrokerVars
  /\ \E e \in DispatchErrors : OnDispatchException(q, i, e)
  /\ LogCall(q, "completed", i)
  /\ UNCHANGED <<request, query_id, candidates, idx, allowed_sources>>

\* Mutant: the wait ends with the first task that completes.
GatherFirstCompleted(q) == \E i \in 1..Len(tasks[q]) : tasks[q][i].state = "done"

\* asyncio.gather(*tasks) completes when every task has.
GatherDone(q) == \A i \in 1..Len(tasks[q]) : tasks[q][i].state = "done"

\* Mutant: the results in the order in which the dispatches ended.
ResultsAsCompleted(q) ==
  [k \in 1..Len(calls[q].completed) |-> tasks[q][calls[q].completed[k]].result]

\* list(results): the tasks' results in the order of the tasks.
Results(q) == [i \in 1..Len(tasks[q]) |-> tasks[q][i].result]

\* The final response.
Respond(q) ==
  /\ pc[q] = "gather"
  /\ UNCHANGED nonBrokerVars
  /\ LoopFree(q)
  /\ GatherDone(q)
  /\ \E ts \in Timestamps :
       Return(q, CatalogResponse(query_id[q], Results(q),
                                 GenerateProvenance(query_id[q], Results(q), ts)))
  /\ UNCHANGED <<request, query_id, candidates, idx, allowed_sources, tasks, calls>>

BrokerNext ==
  \/ \E q \in Queries : Submit(q)
  \/ \E q \in Queries : EmbedReturns(q)
  \/ \E q \in Queries : EmbedRaises(q)
  \/ \E q \in Queries : SearchReturns(q)
  \/ \E q \in Queries : SearchRaises(q)
  \/ \E q \in Queries : PolicyAllows(q)
  \/ \E q \in Queries : PolicyDenies(q)
  \/ \E q \in Queries : PolicyRaises(q)
  \/ \E q \in Queries : NoAllowedSources(q)
  \/ \E q \in Queries : FanOut(q)
  \/ \E q \in Queries, i \in 1..MaxCandidates : TaskStart(q, i)
  \/ \E q \in Queries, i \in 1..MaxCandidates : DispatchReturns(q, i)
  \/ \E q \in Queries, i \in 1..MaxCandidates : DispatchRaises(q, i)
  \/ \E q \in Queries : Respond(q)

\* ---------------------------------------- generate_provenance on its own

ProvIdle ==
  /\ provIn = [query_id |-> "none", results |-> <<>>, timestamp |-> "none"]
  /\ provOut = <<>>

\* Any results list: every status a SourceResult can carry, in any order.
ProvResults ==
  SeqsUpTo({SourceResult(u, s, [data |-> "ok"]) : u \in Urns, s \in Statuses},
           MaxResults)

ProvInit ==
  /\ provIn \in [query_id : {UuidPool[q] : q \in Queries},
                 results : ProvResults, timestamp : Timestamps]
  /\ provOut = <<>>

\* generate_provenance(query_id, results) is called and returns.
ProvCall ==
  /\ provOut = <<>>
  /\ provOut' = GenerateProvenance(provIn.query_id, provIn.results, provIn.timestamp)
  /\ UNCHANGED provIn

\* ------------------------------------------------ check_access on its own

AclIdle ==
  /\ aclIn = [asset |-> [urn |-> "none", acls |-> {}],
              user_context |-> [user_id |-> "none", groups |-> {},
                                claims |-> [is_service_account |-> "absent"]]]
  /\ aclOut = <<>>

\* Group identifiers, two of which differ in case only.
AclGroups == {"group:admin", "Group:Admin", "group:users"}

\* What claims.get("is_service_account") can be: the boolean True, the boolean
\* False, None ("absent"), the integer 1 or the string 'true'.
ClaimValues == {"True", "False", "absent", "1", "'true'"}

AclAssets == {[urn |-> "urn:test", acls |-> a] : a \in SUBSET AclGroups}

AclContexts ==
  {[user_id |-> "u1", groups |-> g, claims |-> [is_service_account |-> c]] :
     g \in SUBSET AclGroups, c \in ClaimValues}

AclInit ==
  /\ aclIn \in [asset : AclAssets, user_context : AclContexts]
  /\ aclOut = <<>>

\* check_access(asset, user_context) is called and returns.
AclCall ==
  /\ aclOut = <<>>
  /\ aclOut' = <<check_access(aclIn.asset, aclIn.user_context)>>
  /\ UNCHANGED aclIn

\* ------------------------------------------------------------ vector store

\* len(embedding) != 384
EmbeddingDim == 384

Writers == {"w1", "w2"}

StoreUrns == {"urn:concurrent:0", "urn:concurrent:1"}

Descriptions == {"Desc", "Updated Desc"}

\* The manifests handed to add_source: two URNs, each in two versions.
StoreManifest(urn, description) ==
  [urn |-> urn, name |-> "Source", description |-> description,
   endpoint_url |-> "sse://localhost", geo_location |-> "US",
   sensitivity |-> "PUBLIC", owner_group |-> "Group",
   access_policy |-> "allow { true }", acls |-> {"group:users"}]

StoreManifests == {StoreManifest(u, d) : u \in StoreUrns, d \in Descriptions}

\* An embedding is a list of floats; only its length is looked at.
GoodEmbedding == [len |-> EmbeddingDim, of |-> "0.1"]

BadEmbedding == [len |-> 10, of |-> "0.1"]

Embeddings == {GoodEmbedding, BadEmbedding}

\* The row add_source builds from a manifest and its embedding.
Row(manifest, embedding) ==
  [urn |-> manifest.urn, name |-> manifest.name,
   description |-> manifest.description, vector |-> embedding,
   endpoint_url |-> manifest.endpoint_url,
   geo_location |-> manifest.geo_location,
   sensitivity |-> manifest.sensitivity,
   owner_group |-> manifest.owner_group,
   access_policy |-> manifest.access_policy]

\* The SourceManifest search builds from a row of its result: the eight
\* columns it names, and no acls.
ManifestOfRow(row) ==
  [urn |-> row.urn, name |-> row.name, description |-> row.description,
   endpoint_url |-> row.endpoint_url, geo_location |-> row.geo_location,
   sensitivity |-> row.sensitivity, owner_group |-> row.owner_group,
   access_policy |-> row.access_policy]

\* search(query_vector, limit) with a limit no smaller than the table and no
\* filter: the manifests of the rows.
search(rows) == [i \in 1..Len(rows) |-> ManifestOfRow(rows[i])]

\* Mutant: the delete before the add is left out.
DeleteNothing(rows, urn) == rows

\* Mutant: the delete has no filter.
DeleteEverything(rows, urn) == <<>>

\* table.delete(f"urn = '{manifest.urn}'")
Delete(rows, urn) == SelectSeq(rows, LAMBDA r : r.urn # urn)

\* table.add(data)
Add(rows, data) == Append(rows, data)

NoWriter ==
  [pc |-> "idle", manifest |-> StoreManifest("none", "none"),
   embedding |-> GoodEmbedding, raced |-> FALSE]

StoreIdle ==
  /\ table = <<>>
  /\ writers = [w \in Writers |-> NoWriter]
  /\ storeLog = <<>>

InCall(w) == writers[w].pc # "idle"

CallsMade == Len(storeLog) + Cardinality({w \in Writers : InCall(w)})

\* The call ends: it returns None ("OK") or raises.
EndCall(w, result) ==
  /\ storeLog' = Append(storeLog,
                        [writer |-> w, manifest |-> writers[w].manifest,
                         embedding |-> writers[w].embedding,
                         result |-> result, raced |-> writers[w].raced])
  /\ writers' = [writers EXCEPT ![w] = NoWriter]

\* add_source(manifest, embedding) with an embedding of the wrong length
\* raises ValueError before the table is opened.
AddSourceBadDimension(w) ==
  /\ ~InCall(w)
  /\ CallsMade < MaxUpserts
  /\ \E m \in StoreManifests, e \in Embeddings :
       /\ e.len # EmbeddingDim
       /\ storeLog' = Append(storeLog,
                             [writer |-> w, manifest |-> m, embedding |-> e,
                              result |-> "ValueError", raced |-> FALSE])
  /\ UNCHANGED <<table, writers>>
  /\ UNCHANGED nonStoreVars

\* add_source(manifest, embedding) passes the dimension check, opens the
\* table and builds its row.  raced records that another call is in progress.
AddSourceStart(w) ==
  /\ ~InCall(w)
  /\ CallsMade < MaxUpserts
  /\ \E m \in StoreManifests, e \in Embeddings :
       LET others == {o \in Writers \ {w} : InCall(o)}
       IN  /\ e.len = EmbeddingDim
           /\ writers' = [o \in Writers |->
                            IF o = w
                            THEN [pc |-> "delete", manifest |-> m,
                                  embedding |-> e,
                                  raced |-> others # {}]
                            ELSE IF o \in others
                                 THEN [writers[o] EXCEPT !.raced = TRUE]
                                 ELSE writers[o]]
  /\ UNCHANGED <<table, storeLog>>
  /\ UNCHANGED nonStoreVars

\* The same, called while no other add_source call is in progress.
AddSourceStartAlone(w) ==
  /\ \A o \in Writers : ~InCall(o)
  /\ AddSourceStart(w)

\* table.delete(...) returns.
TableDelete(w) ==
  /\ writers[w].pc = "delete"
  /\ table' = Delete(table, writers[w].manifest.urn)
  /\ writers' = [writers EXCEPT ![w].pc = "add"]
  /\ UNCHANGED storeLog
  /\ UNCHANGED nonStoreVars

\* table.add(data) returns, and add_source with it.
TableAdd(w) ==
  /\ writers[w].pc = "add"
  /\ table' = Add(table, Row(writers[w].manifest, writers[w].embedding))
  /\ EndCall(w, "OK")
  /\ UNCHANGED nonStoreVars

\* open_table or table.delete raises: nothing was written, and the except
\* clause raises RuntimeError.
TableDeleteRaises(w) ==
  /\ writers[w].pc = "delete"
  /\ EndCall(w, "RuntimeError")
  /\ UNCHANGED table
  /\ UNCHANGED nonStoreVars

\* table.add raises after the delete was done: RuntimeError.
TableAddRaises(w) ==
  /\ writers[w].pc = "add"
  /\ EndCall(w, "RuntimeError")
  /\ UNCHANGED table
  /\ UNCHANGED nonStoreVars

\* Calls made one at a time, on storage that may fail.
StoreNextSerial ==
  \/ \E w \in Writers : AddSourceBadDimension(w)
  \/ \E w \in Writers : AddSourceStartAlone(w)
  \/ \E w \in Writers : TableDelete(w)
  \/ \E w \in Writers : TableAdd(w)
  \/ \E w \in Writers : TableDeleteRaises(w)
  \/ \E w \in Writers : TableAddRaises(w)

\* Calls made by threads running at the same time, on storage that works.
StoreNextConcurrent ==
  \/ \E w \in Writers : AddSourceBadDimension(w)
  \/ \E w \in Writers : AddSourceStart(w)
  \/ \E w \in Writers : TableDelete(w)
  \/ \E w \in Writers : TableAdd(w)

\* ------------------------------------------------- thread_safe_singleton

Threads == {"t1", "t2", "t3"}

\* instance is None, or the object the k-th successful factory call built.
None == <<>>

Object(k) == <<k>>

NoCaller == [pc |-> "idle", waited |-> FALSE]

SingletonIdle ==
  /\ instance = None
  /\ lock = "free"
  /\ callers = [t \in Threads |-> NoCaller]
  /\ factoryCalls = [returned |-> 0, raised |-> 0]
  /\ providerLog = <<>>

InWrapper(t) == callers[t].pc # "idle"

ProviderCalls == Len(providerLog) + Cardinality({t \in Threads : InWrapper(t)})

\* lock.__exit__: the with block is left, by its end or by an exception.
Release(t) == lock' = "free"

\* wrapper() is called and makes the first test, "if instance is None",
\* outside the lock.
WrapperFirstCheck(t) ==
  /\ ~InWrapper(t)
  /\ ProviderCalls < MaxProviderCalls
  /\ callers' = [callers EXCEPT ![t] =
                   IF instance = None
                   THEN [pc |-> "acquire", waited |-> TRUE]
                   ELSE [pc |-> "return", waited |-> FALSE]]
  /\ UNCHANGED <<instance, lock, factoryCalls, providerLog>>
  /\ UNCHANGED nonSingletonVars

\* "with lock:" is entered once the lock is free.
Acquire(t) ==
  /\ callers[t].pc = "acquire"
  /\ lock = "free"
  /\ lock' = t
  /\ callers' = [callers EXCEPT ![t].pc = "locked"]
  /\ UNCHANGED <<instance, factoryCalls, providerLog>>
  /\ UNCHANGED nonSingletonVars

\* Mutant: no second test under the lock.
SecondCheckSkipped == TRUE

\* The second test, "if instance is None", under the lock.
SecondCheck == instance = None

\* The second test finds an instance: the with block is left.
AlreadyConstructed(t) ==
  /\ callers[t].pc = "locked"
  /\ ~SecondCheck
  /\ Release(t)
  /\ callers' = [callers EXCEPT ![t].pc = "return"]
  /\ UNCHANGED <<instance, factoryCalls, providerLog>>
  /\ UNCHANGED nonSingletonVars

\* instance = func(): the factory returns a new object.
FactoryReturns(t) ==
  /\ callers[t].pc = "locked"
  /\ SecondCheck
  /\ instance' = Object(factoryCalls.returned + 1)
  /\ factoryCalls' = [factoryCalls EXCEPT !.returned = @ + 1]
  /\ Release(t)
  /\ callers' = [callers EXCEPT ![t].pc = "return"]
  /\ UNCHANGED providerLog
  /\ UNCHANGED nonSingletonVars

\* Mutant: the failure is kept as the instance.
OnFactoryExceptionCached(t) ==
  /\ instance' = Object(0)
  /\ Release(t)

\* func() raises inside the with block: the assignment does not happen, the
\* lock is released and the exception leaves wrapper.
OnFactoryException(t) ==
  /\ UNCHANGED instance
  /\ Release(t)

FactoryRaises(t) ==
  /\ callers[t].pc = "locked"
  /\ SecondCheck
  /\ OnFactoryException(t)
  /\ factoryCalls' = [factoryCalls EXCEPT !.raised = @ + 1]
  /\ providerLog' = Append(providerLog,
                           [thread |-> t, kind |-> "raised", value |-> None,
                            waited |-> callers[t].waited])
  /\ callers' = [callers EXCEPT ![t] = NoCaller]
  /\ UNCHANGED nonSingletonVars

\* "return instance", read after the with block.
WrapperReturn(t) ==
  /\ callers[t].pc = "return"
  /\ providerLog' = Append(providerLog,
                           [thread |-> t, kind |-> "returned",
                            value |-> instance, waited |-> callers[t].waited])
  /\ callers' = [callers EXCEPT ![t] = NoCaller]
  /\ UNCHANGED <<instance, lock, factoryCalls>>
  /\ UNCHANGED nonSingletonVars

\* cache_clear() is called and enters "with lock:" once the lock is free.
CacheClearAcquire(t) ==
  /\ ~InWrapper(t)
  /\ ProviderCalls < MaxProviderCalls
  /\ lock = "free"
  /\ lock' = t
  /\ callers' = [callers EXCEPT ![t] = [pc |-> "clearing", waited |-> FALSE]]
  /\ UNCHANGED <<instance, factoryCalls, providerLog>>
  /\ UNCHANGED nonSingletonVars

\* instance = None under the lock; the lock is released and cache_clear
\* returns.
CacheClear(t) ==
  /\ callers[t].pc = "clearing"
  /\ instance' = None
  /\ Release(t)
  /\ providerLog' = Append(providerLog,
                           [thread |-> t, kind |-> "cleared", value |-> None,
                            waited |-> FALSE])
  /\ callers' = [callers EXCEPT ![t] = NoCaller]
  /\ UNCHANGED factoryCalls
  /\ UNCHANGED nonSingletonVars

SingletonNext ==
  \/ \E t \in Threads : WrapperFirstCheck(t)
  \/ \E t \in Threads : Acquire(t)
  \/ \E t \in Threads : AlreadyConstructed(t)
  \/ \E t \in Threads : FactoryReturns(t)
  \/ \E t \in Threads : FactoryRaises(t)
  \/ \E t \in Threads : WrapperReturn(t)

\* Provider calls and cache_clear calls made by threads running at the same
\* time.
SingletonClearNext ==
  \/ \E t \in Threads : WrapperFirstCheck(t)
  \/ \E t \in Threads : Acquire(t)
  \/ \E t \in Threads : AlreadyConstructed(t)
  \/ \E t \in Threads : FactoryReturns(t)
  \/ \E t \in Threads : FactoryRaises(t)
  \/ \E t \in Threads : WrapperReturn(t)
  \/ \E t \in Threads : CacheClearAcquire(t)
  \/ \E t \in Threads : CacheClear(t)

\* -------------------------------------------------------- evaluate_policy

\* self.opa_path: the binary's path, or "None" when none was found.
OpaPaths == {"/mock/opa", "None"}

Whitespace == {" ", "\n"}

\* The names the pattern [a-zA-Z0-9_.]+ matches whole.
Identifiers == {"package", "allow", "comment", "jp_policy"}

\* Policy programs, as their tokens: the empty string, "   ", "\n ",
\* "allow { true }", "package jp_policy\nallow { true }",
\* "package # comment\nallow { true }", "# package comment\nallow { true }"
\* and "# package comment\npackage jp_policy\nallow { true }".
Programs ==
  { <<>>,
    <<" ", " ", " ">>,
    <<"\n", " ">>,
    <<"allow", " ", "{ true }">>,
    <<"package", " ", "jp_policy", "\n", "allow", " ", "{ true }">>,
    <<"package", " ", "#", " ", "comment", "\n", "allow", " ", "{ true }">>,
    <<"#", " ", "package", " ", "comment", "\n", "allow", " ", "{ true }">>,
    <<"#", " ", "package", " ", "comment", "\n",
      "package", " ", "jp_policy", "\n", "allow", " ", "{ true }">> }

\* Input dictionaries: {"subject": "u1"}, {"subject": "u1", "action":
\* "QUERY"} and {"obj": NonSerializable()}.
InputDatas == { [subject |-> "u1"], [subject |-> "u1", action |-> "QUERY"],
                [obj |-> "NonSerializable"] }

\* Mutant: every input is written as it is.
SerializableAlways(d) == TRUE

\* json.dump(input_data, input_file) raises TypeError on such a value.
Serializable(d) == \A k \in DOMAIN d : d[k] # "NonSerializable"

\* JSON values: {"bool": b}, a string, a number, null.
JsonValues == { [bool |-> TRUE], [bool |-> FALSE], [str |-> "some string"],
                [num |-> 1], [null |-> TRUE] }

\* What the oracle writes to stdout when it exits with 0: text that is not
\* JSON, or a JSON object: {}, {"result": []}, {"result": [{}]},
\* {"result": [{"expressions": []}]}, {"result": [{"expressions": [{}]}]} and
\* {"result": [{"expressions": [{"value": v}]}]}.
Stdouts ==
  { [text |-> "Invalid JSON"],
    [json |-> <<>>],
    [json |-> [result |-> <<>>]],
    [json |-> [result |-> << <<>> >>]],
    [json |-> [result |-> << [expressions |-> <<>>] >>]],
    [json |-> [result |-> << [expressions |-> << <<>> >>] >>]] }
  \cup { [json |-> [result |-> << [expressions |-> << [value |-> v] >>] >>]] :
           v \in JsonValues }

\* str.strip() on the tokens of a string.
RECURSIVE LStrip(_)
LStrip(s) ==
  IF s # <<>> /\ Head(s) \in Whitespace THEN LStrip(Tail(s)) ELSE s

RECURSIVE RStrip(_)
RStrip(s) ==
  IF s # <<>> /\ s[Len(s)] \in Whitespace
  THEN RStrip(SubSeq(s, 1, Len(s) - 1))
  ELSE s

Strip(s) == RStrip(LStrip(s))

\* Mutant: only the empty string counts as no program.
EmptyPolicyUnstripped(policy_code) == policy_code = <<>>

\* not policy_code or not policy_code.strip()
EmptyPolicy(policy_code) == policy_code = <<>> \/ Strip(policy_code) = <<>>

\* "package " in policy_code
HasPackage(policy_code) ==
  \E i \in 1..(Len(policy_code) - 1) :
    policy_code[i] = "package" /\ policy_code[i + 1] = " "

\* re.search(r"package\s+([a-zA-Z0-9_.]+)", policy_code): the positions of
\* the names that follow "package" and whitespace.
PackageMatches(policy_code) ==
  {j \in 3..Len(policy_code) :
     /\ policy_code[j] \in Identifiers
     /\ \E i \in 1..(j - 2) :
          /\ policy_code[i] = "package"
          /\ \A h \in (i + 1)..(j - 1) : policy_code[h] \in Whitespace}

package_name(policy_code) ==
  IF HasPackage(policy_code) /\ PackageMatches(policy_code) # {}
  THEN policy_code[CHOOSE j \in PackageMatches(policy_code) :
                     \A h \in PackageMatches(policy_code) : j <= h]
  ELSE "match"

final_policy(policy_code) ==
  IF HasPackage(policy_code)
  THEN policy_code
  ELSE <<"package", " ", "match", "\n", "\n">> \o policy_code

query(policy_code) == "data." \o package_name(policy_code) \o ".allow"

\* The names NamedTemporaryFile gives the two files.
policy_path == "tmp1.rego"

input_path == "tmp2.json"

NoOutcome == [kind |-> "none", value |-> FALSE, error |-> "none"]

EvalReturns(value) == [kind |-> "returned", value |-> value, error |-> "none"]

EvalRaises(error) == [kind |-> "raised", value |-> FALSE, error |-> error]

EvalIdle ==
  /\ evIn = [opa_path |-> "None", policy_code |-> <<>>,
             input_data |-> [subject |-> "u1"]]
  /\ evPc = "idle"
  /\ files = {}
  /\ created = {}
  /\ oracleRuns = <<>>
  /\ evOut = NoOutcome

EvalInit ==
  /\ evIn \in [opa_path : OpaPaths, policy_code : Programs,
               input_data : InputDatas]
  /\ evPc = "called"
  /\ files = {}
  /\ created = {}
  /\ oracleRuns = <<>>
  /\ evOut = NoOutcome

\* NamedTemporaryFile(..., delete=False): the file is there from now on.
CreateTemp(path) ==
  /\ files' = files \cup {path}
  /\ created' = created \cup {path}

\* The call ends.
EvalEnds(outcome_) ==
  /\ evPc' = "ended"
  /\ evOut' = outcome_

\* if not self.opa_path: raise RuntimeError("OPA binary is not configured.")
NotConfigured ==
  /\ evPc = "called"
  /\ evIn.opa_path = "None"
  /\ EvalEnds(EvalRaises("RuntimeError: OPA binary is not configured."))
  /\ UNCHANGED <<evIn, files, created, oracleRuns>>
  /\ UNCHANGED nonEvalVars

\* An empty program is denied at once.
EmptyProgram ==
  /\ evPc = "called"
  /\ evIn.opa_path # "None"
  /\ EmptyPolicy(evIn.policy_code)
  /\ EvalEnds(EvalReturns(FALSE))
  /\ UNCHANGED <<evIn, files, created, oracleRuns>>
  /\ UNCHANGED nonEvalVars

\* The program is normalized and written to its temporary file.
WritePolicyFile ==
  /\ evPc = "called"
  /\ evIn.opa_path # "None"
  /\ ~EmptyPolicy(evIn.policy_code)
  /\ CreateTemp(policy_path)
  /\ evPc' = "policy_written"
  /\ UNCHANGED <<evIn, oracleRuns, evOut>>
  /\ UNCHANGED nonEvalVars

\* The input file is created and json.dump writes the input into it.
DumpInput ==
  /\ evPc = "policy_written"
  /\ Serializable(evIn.input_data)
  /\ CreateTemp(input_path)
  /\ evPc' = "ready"
  /\ UNCHANGED <<evIn, oracleRuns, evOut>>
  /\ UNCHANGED nonEvalVars

\* The input file is created and json.dump raises: the handler unlinks the
\* policy file and raises ValueError out of the with block, before
\* input_path is assigned and before the try whose finally cleans up.
DumpInputRaises ==
  /\ evPc = "policy_written"
  /\ ~Serializable(evIn.input_data)
  /\ files' = (files \cup {input_path}) \ {policy_path}
  /\ created' = created \cup {input_path}
  /\ EvalEnds(EvalRaises("ValueError: Invalid input data"))
  /\ UNCHANGED <<evIn, oracleRuns>>
  /\ UNCHANGED nonEvalVars

\* The finally clause: both paths are unlinked.
Finally == files' = files \ {policy_path, input_path}

\* subprocess.run(cmd, ...) is called: the command and what the policy file
\* holds are recorded with the way the run ended.
Run(ended) ==
  /\ evPc = "ready"
  /\ oracleRuns' = Append(oracleRuns,
       [cmd |-> <<evIn.opa_path, "eval", "--format", "json", "-d", policy_path,
                  "-i", input_path, query(evIn.policy_code)>>,
        policy |-> final_policy(evIn.policy_code),
        files |-> files,
        ended |-> ended])
  /\ Finally
  /\ UNCHANGED <<evIn, created>>
  /\ UNCHANGED nonEvalVars

\* subprocess.TimeoutExpired
OracleTimesOut ==
  /\ Run([how |-> "timeout"])
  /\ EvalEnds(EvalRaises("RuntimeError: OPA execution timed out"))

\* result.returncode != 0
OracleExitsNonzero ==
  /\ Run([how |-> "nonzero"])
  /\ EvalEnds(EvalRaises("RuntimeError: OPA execution failed"))

\* subprocess.run raises something else, which is raised again.
OracleRunRaises ==
  /\ Run([how |-> "exception"])
  /\ EvalEnds(EvalRaises("OSError"))

IsBool(value) == "bool" \in DOMAIN value

\* Mutant: a value that is not a boolean is taken by its truthiness.
AllowedTruthy(output) ==
  IF "result" \in DOMAIN output /\ Len(output.result) > 0
  THEN LET first == output.result[1]
           expressions == IF "expressions" \in DOMAIN first
                          THEN first.expressions ELSE <<>>
       IN  IF expressions # <<>>
           THEN IF "value" \in DOMAIN expressions[1]
                THEN LET value == expressions[1].value
                     IN  IF IsBool(value) THEN value.bool
                         ELSE "null" \notin DOMAIN value
                ELSE FALSE
           ELSE FALSE
  ELSE FALSE

\* The decision read from the parsed output.
Allowed(output) ==
  IF "result" \in DOMAIN output /\ Len(output.result) > 0
  THEN LET first == output.result[1]
           expressions == IF "expressions" \in DOMAIN first
                          THEN first.expressions ELSE <<>>
       IN  IF expressions # <<>>
           THEN IF "value" \in DOMAIN expressions[1]
                THEN LET value == expressions[1].value
                     IN  IF ~IsBool(value) THEN FALSE ELSE value.bool
                ELSE FALSE
           ELSE FALSE
  ELSE FALSE

\* The oracle exits with 0 and stdout is not JSON: json.JSONDecodeError.
OracleOutputUnparseable ==
  \E stdout \in Stdouts :
    /\ "json" \notin DOMAIN stdout
    /\ Run([how |-> "exit 0", stdout |-> stdout])
    /\ EvalEnds(EvalRaises("RuntimeError: Failed to parse OPA output"))

\* The oracle exits with 0 and stdout parses: the decision is returned.
OracleDecides ==
  \E stdout \in Stdouts :
    /\ "json" \in DOMAIN stdout
    /\ Run([how |-> "exit 0", stdout |-> stdout])
    /\ EvalEnds(EvalReturns(Allowed(stdout.json)))

EvalNext ==
  \/ NotConfigured
  \/ EmptyProgram
  \/ WritePolicyFile
  \/ DumpInput
  \/ DumpInputRaises
  \/ OracleTimesOut
  \/ OracleExitsNonzero
  \/ OracleRunRaises
  \/ OracleOutputUnparseable
  \/ OracleDecides

\* ------------------------------------------- SSEQueryDispatcher.dispatch

\* The lines response.aiter_lines() can yield, as their tokens: "", " ",
\* "data: {", "data:\"k\":1", "data: }", "data: {}", "data: INVALID",
\* "data:", ":ping", "id: 1", "event:x" and "retry:3".
SseLines ==
  { <<>>,
    <<" ">>,
    <<"data:", " ", "{">>,
    <<"data:", "\"k\":1">>,
    <<"data:", " ", "}">>,
    <<"data:", " ", "{", "}">>,
    <<"data:", " ", "INVALID">>,
    <<"data:">>,
    <<":", "ping">>,
    <<"id:", " ", "1">>,
    <<"event:", "x">>,
    <<"retry:", "3">> }

\* What can go wrong with the transport: raise_for_status, the connection.
TransportErrors == {"HTTPStatusError", "RequestError"}

\* not line.strip()
IsBlank(line) == Strip(line) = <<>>

\* Mutant: an id: line is taken for a data: line.
IsDataOrId(line) == line # <<>> /\ Head(line) \in {"data:", "id:"}

\* line.startswith("data:")
IsData(line) == line # <<>> /\ Head(line) = "data:"

\* Mutant: the space after the colon is kept.
ContentUnstripped(line) == Tail(line)

\* content = line[5:], less one leading space.
Content(line) ==
  LET content == Tail(line)
  IN  IF content # <<>> /\ Head(content) = " " THEN Tail(content) ELSE content

\* Mutant: the parts are joined with a newline.
FullDataLines(parts) ==
  IF parts = <<>> THEN <<>>
  ELSE Head(parts) \o
       Join([i \in 1..(Len(parts) - 1) |-> <<"\n">> \o parts[i + 1]])

\* "".join(buffer)
RECURSIVE FullData(_)
FullData(parts) ==
  IF parts = <<>> THEN <<>> ELSE Head(parts) \o FullData(Tail(parts))

\* The members of the JSON objects of the model.
JsonMembers == {"\"k\":1", "\"l\":2"}

\* json.loads on the tokens of a text: whitespace between tokens is
\* skipped; an object is "{", members separated by ",", "}".  The value of a
\* text that parses is the object, as the set of its members.
JsonLoads(text) ==
  LET t == SelectSeq(text, LAMBDA c : c \notin Whitespace)
      n == Len(t)
      inner == SubSeq(t, 2, n - 1)
      wellFormed ==
        /\ n >= 2
        /\ t[1] = "{"
        /\ t[n] = "}"
        /\ Len(inner) = 0 \/ Len(inner) % 2 = 1
        /\ \A i \in 1..Len(inner) :
             IF i % 2 = 1 THEN inner[i] \in JsonMembers ELSE inner[i] = ","
  IN  IF wellFormed
      THEN [ok |-> TRUE, value |-> {inner[i] : i \in {j \in 1..Len(inner) : j % 2 = 1}}]
      ELSE [ok |-> FALSE, value |-> {}]

SseIdle ==
  /\ ssePc = "idle"
  /\ sseRead = <<>>
  /\ buffer = <<>>
  /\ sseResults = <<>>
  /\ attempts = <<>>
  /\ sseOut = [kind |-> "none", value |-> <<>>, error |-> "none"]

\* dispatch(source, intent) has been called.
SseInit ==
  /\ ssePc = "called"
  /\ sseRead = <<>>
  /\ buffer = <<>>
  /\ sseResults = <<>>
  /\ attempts = <<>>
  /\ sseOut = [kind |-> "none", value |-> <<>>, error |-> "none"]

\* Mutant: a parse failure empties results.
OnJSONDecodeErrorReset == <<>>

\* except json.JSONDecodeError: a warning is logged, results is as it was.
OnJSONDecodeError == sseResults

\* The buffered event is parsed: its payload is appended, or it is dropped.
\* The text handed to json.loads is recorded in attempts.
Flush ==
  LET full_data == FullData(buffer)
      data == JsonLoads(full_data)
  IN  /\ buffer' = <<>>
      /\ attempts' = Append(attempts, full_data)
      /\ sseResults' = IF data.ok THEN Append(sseResults, data.value)
                       ELSE OnJSONDecodeError

\* Mutant: the end of the stream drops the pending event.
FlushedNothing == sseResults

\* What results will be after the flush, if there is one.
Flushed ==
  IF buffer = <<>> THEN sseResults
  ELSE IF JsonLoads(FullData(buffer)).ok
       THEN Append(sseResults, JsonLoads(FullData(buffer)).value)
       ELSE OnJSONDecodeError

\* client.stream(...) is entered and raise_for_status passes.
StreamOpens ==
  /\ ssePc = "called"
  /\ ssePc' = "reading"
  /\ UNCHANGED <<sseRead, buffer, sseResults, attempts, sseOut>>
  /\ UNCHANGED nonSseVars

\* client.stream(...) or raise_for_status raises: the error is raised again.
StreamRaises ==
  /\ ssePc = "called"
  /\ \E e \in TransportErrors :
       /\ ssePc' = "raised"
       /\ sseOut' = [kind |-> "raised", value |-> <<>>, error |-> e]
  /\ UNCHANGED <<sseRead, buffer, sseResults, attempts>>
  /\ UNCHANGED nonSseVars

CanRead == ssePc = "reading" /\ Len(sseRead) < MaxLines

\* A blank line: the event separator.
ReadBlankLine ==
  /\ CanRead
  /\ \E line \in SseLines :
       /\ IsBlank(line)
       /\ sseRead' = Append(sseRead, line)
  /\ IF buffer # <<>> THEN Flush ELSE UNCHANGED <<buffer, sseResults, attempts>>
  /\ UNCHANGED <<ssePc, sseOut>>
  /\ UNCHANGED nonSseVars

\* A data: line: its content goes to the buffer.
ReadDataLine ==
  /\ CanRead
  /\ \E line \in SseLines :
       /\ ~IsBlank(line)
       /\ IsData(line)
       /\ sseRead' = Append(sseRead, line)
       /\ buffer' = Append(buffer, Content(line))
  /\ UNCHANGED <<ssePc, sseResults, attempts, sseOut>>
  /\ UNCHANGED nonSseVars

\* Any other line is passed over.
ReadOtherLine ==
  /\ CanRead
  /\ \E line \in SseLines :
       /\ ~IsBlank(line)
       /\ ~IsData(line)
       /\ sseRead' = Append(sseRead, line)
  /\ UNCHANGED <<ssePc, buffer, sseResults, attempts, sseOut>>
  /\ UNCHANGED nonSseVars

\* The stream breaks while it is read: the error is raised again.
ReadRaises ==
  /\ ssePc = "reading"
  /\ ssePc' = "raised"
  /\ sseOut' = [kind |-> "raised", value |-> <<>>, error |-> "RequestError"]
  /\ UNCHANGED <<sseRead, buffer, sseResults, attempts>>
  /\ UNCHANGED nonSseVars

\* The stream ends: a pending buffer is flushed and results is returned.
EndOfStream ==
  /\ ssePc = "reading"
  /\ ssePc' = "returned"
  /\ IF buffer # <<>> THEN Flush ELSE UNCHANGED <<buffer, sseResults, attempts>>
  /\ sseOut' = [kind |-> "returned", value |-> Flushed, error |-> "none"]
  /\ UNCHANGED sseRead
  /\ UNCHANGED nonSseVars

SseNext ==
  \/ StreamOpens
  \/ StreamRaises
  \/ ReadBlankLine
  \/ ReadDataLine
  \/ ReadOtherLine
  \/ ReadRaises
  \/ EndOfStream

\* ------------------------------------------- RegistryService.register_source

\* embedding_service.embedding_dim: the dimension the embedder declares.
DeclaredDims == {EmbeddingDim, BadEmbedding.len}

\* Mutant: the registry hands any embedding to the store.
DimensionOkAlways(embedding, dim) == TRUE

\* len(embedding) == self.embedding_service.embedding_dim
DimensionOk(embedding, dim) == embedding.len = dim

\* embedded is the list embed_text returned, in <<>>, or <<>> before that.
NoRegistration ==
  [manifest |-> StoreManifest("none", "none"), embedded |-> <<>>,
   made |-> <<>>, before |-> <<>>]

RegistryIdle ==
  /\ regDim = EmbeddingDim
  /\ regPc = "idle"
  /\ regCall = NoRegistration
  /\ regIndex = <<>>
  /\ regLog = <<>>

\* A registry on an empty index, whose embedder declares some dimension.
RegistryInit ==
  /\ regDim \in DeclaredDims
  /\ regPc = "idle"
  /\ regCall = NoRegistration
  /\ regIndex = <<>>
  /\ regLog = <<>>

\* register_source ends: it returns None ("OK") or raises.
EndRegistration(result) ==
  /\ regLog' = Append(regLog,
                      [manifest |-> regCall.manifest,
                       embedded |-> regCall.embedded,
                       made |-> regCall.made,
                       before |-> regCall.before,
                       after |-> regIndex',
                       result |-> result])
  /\ regCall' = NoRegistration
  /\ regPc' = "idle"
  /\ UNCHANGED regDim

\* register_source(manifest) is called and calls embed_text(description).
RegisterSource ==
  /\ regPc = "idle"
  /\ Len(regLog) < MaxRegistrations
  /\ \E m \in StoreManifests :
       regCall' = [manifest |-> m, embedded |-> <<>>,
                   made |-> <<"embed_text">>, before |-> regIndex]
  /\ regPc' = "embed"
  /\ UNCHANGED <<regDim, regIndex, regLog>>
  /\ UNCHANGED nonRegistryVars

\* embed_text returns a list of floats.
RegistryEmbedReturns ==
  /\ regPc = "embed"
  /\ \E e \in Embeddings : regCall' = [regCall EXCEPT !.embedded = <<e>>]
  /\ regPc' = "check"
  /\ UNCHANGED <<regDim, regIndex, regLog>>
  /\ UNCHANGED nonRegistryVars

\* embed_text raises: ValueError("Failed to generate embedding").
RegistryEmbedRaises ==
  /\ regPc = "embed"
  /\ UNCHANGED regIndex
  /\ EndRegistration("ValueError")
  /\ UNCHANGED nonRegistryVars

\* The embedding has not the declared dimension: ValueError.
DimensionMismatch ==
  /\ regPc = "check"
  /\ ~DimensionOk(regCall.embedded[1], regDim)
  /\ UNCHANGED regIndex
  /\ EndRegistration("ValueError")
  /\ UNCHANGED nonRegistryVars

\* It has: vector_store.add_source(manifest, embedding) is called.
CallAddSource ==
  /\ regPc = "check"
  /\ DimensionOk(regCall.embedded[1], regDim)
  /\ regCall' = [regCall EXCEPT !.made = Append(@, "add_source")]
  /\ regPc' = "store"
  /\ UNCHANGED <<regDim, regIndex, regLog>>
  /\ UNCHANGED nonRegistryVars

\* add_source returns: the row replaces the rows of its URN.
AddSourceReturns ==
  /\ regPc = "store"
  /\ regCall.embedded[1].len = EmbeddingDim
  /\ regIndex' = Add(Delete(regIndex, regCall.manifest.urn),
                     Row(regCall.manifest, regCall.embedded[1]))
  /\ EndRegistration("OK")
  /\ UNCHANGED nonRegistryVars

\* add_source raises, its own dimension check before it touched the table,
\* the storage before or after the delete: RuntimeError("Failed to store
\* source").
AddSourceRaises ==
  /\ regPc = "store"
  /\ \/ UNCHANGED regIndex
     \/ /\ regCall.embedded[1].len = EmbeddingDim
        /\ regIndex' = Delete(regIndex, regCall.manifest.urn)
  /\ EndRegistration("RuntimeError")
  /\ UNCHANGED nonRegistryVars

RegistryNext ==
  \/ RegisterSource
  \/ RegistryEmbedReturns
  \/ RegistryEmbedRaises
  \/ DimensionMismatch
  \/ CallAddSource
  \/ AddSourceReturns
  \/ AddSourceRaises

\* ------------------------------------- SSEQueryDispatcher: client lifecycle

\* The client argument of the constructor: None, or a shared AsyncClient.
GivenClients == {"None", "shared"}

\* endpoint_url of a source, character by character.
EndpointUrls ==
  { <<"s", "s", "e", ":", "/", "/", "h">>,
    <<"s", "s", "e", "s", ":", "/", "/", "h">>,
    <<"h", "t", "t", "p", ":", "/", "/", "h">> }

\* url.startswith(prefix)
StartsWith(url, prefix) ==
  /\ Len(url) >= Len(prefix)
  /\ SubSeq(url, 1, Len(prefix)) = prefix

\* url[n:]
From(url, n) == SubSeq(url, n + 1, Len(url))

\* The URL the request goes to: sse:// becomes http://, sses:// https://.
RewriteUrl(url) ==
  IF StartsWith(url, <<"s", "s", "e", ":", "/", "/">>)
  THEN <<"h", "t", "t", "p">> \o From(url, 3)
  ELSE IF StartsWith(url, <<"s", "s", "e", "s", ":", "/", "/">>)
       THEN <<"h", "t", "t", "p", "s">> \o From(url, 4)
       ELSE url

\* Mutant: the dispatcher believes it owns whatever client it holds.
OwnsClientAlways(given) == TRUE

\* _owns_client: client is None.
OwnsClient(given) == given = "None"

\* self.client: the one given, or a new httpx.AsyncClient.
ClientOf(given) == IF given = "None" THEN "own" ELSE given

LifecycleIdle ==
  /\ ctorClient = "None"
  /\ sseClient = "own"
  /\ ownsClient = TRUE
  /\ lcPc = "idle"
  /\ clientLog = <<>>

\* The state after SSEQueryDispatcher(client).
LifecycleInit ==
  /\ ctorClient \in GivenClients
  /\ sseClient = ClientOf(ctorClient)
  /\ ownsClient = OwnsClient(ctorClient)
  /\ lcPc = "open"
  /\ clientLog = <<>>

\* dispatch(source, intent) opens a stream on the client.
ClientStream ==
  /\ lcPc \in {"open", "closed"}
  /\ Len(clientLog) < MaxClientCalls
  /\ \E url \in EndpointUrls, intent \in Intents :
       clientLog' = Append(clientLog,
                           [client |-> sseClient, op |-> "stream",
                            url |-> RewriteUrl(url), intent |-> intent])
  /\ UNCHANGED <<ctorClient, sseClient, ownsClient, lcPc>>
  /\ UNCHANGED nonLifecycleVars

\* close() of a dispatcher that owns its client: client.aclose().
CloseOwned ==
  /\ lcPc \in {"open", "closed"}
  /\ ownsClient
  /\ Len(clientLog) < MaxClientCalls
  /\ clientLog' = Append(clientLog, [client |-> sseClient, op |-> "aclose"])
  /\ lcPc' = "closed"
  /\ UNCHANGED <<ctorClient, sseClient, ownsClient>>
  /\ UNCHANGED nonLifecycleVars

\* close() of a dispatcher that was given its client: nothing is called.
CloseShared ==
  /\ lcPc = "open"
  /\ ~ownsClient
  /\ lcPc' = "closed"
  /\ UNCHANGED <<ctorClient, sseClient, ownsClient, clientLog>>
  /\ UNCHANGED nonLifecycleVars

LifecycleNext ==
  \/ ClientStream
  \/ CloseOwned
  \/ CloseShared

\* ------------------------------------------------------- POST /v1/query

\* The user_context of the request body and the one serialized in a header.
BodyContexts ==
  { [user_id |-> "u1", email |-> "base@test.com", groups |-> {"base"}] }

HeaderContext ==
  [user_id |-> "u2", email |-> "header@test.com", groups |-> {"header"}]

\* The X-User-Context header: not sent ("None"), the empty string,
\* "invalid-json", a JSON object that is no UserContext, or the JSON of
\* HeaderContext.
Headers ==
  { [none |-> TRUE],
    [text |-> ""],
    [text |-> "invalid-json"],
    [json |-> [foo |-> "bar"]],
    [json |-> HeaderContext] }

\* The two functions declared for POST /v1/query: the one of the FastAPI
\* application (main.py), and the one of the APIRouter (api/routes.py), which
\* no application includes and the tests call directly.
Endpoints == {"main.query_catalog", "api.routes.query_catalog"}

\* "if x_user_context": a header was sent and is not the empty string.
Truthy(header) == "none" \notin DOMAIN header /\ header # [text |-> ""]

\* UserContext.model_validate_json(x_user_context) returns a UserContext.
Validates(header) ==
  /\ "json" \in DOMAIN header
  /\ {"user_id", "email"} \subseteq DOMAIN header.json

\* api/routes.py: the header's context when it validates, else the body's.
RoutesUserContext(request_, header) ==
  IF Truthy(header) /\ Validates(header)
  THEN header.json
  ELSE request_.user_context

\* main.py: request.user_context.
MainUserContext(request_, header) == request_.user_context

NoRouteCall == <<>>

RouteIdle ==
  /\ routeIn = [endpoint |-> "none",
                request |-> [intent |-> "", limit |-> 0,
                             user_context |-> HeaderContext],
                header |-> [none |-> TRUE]]
  /\ routePc = "idle"
  /\ routeCall = NoRouteCall
  /\ routeOut = "none"

\* A request has arrived at one of the two functions.
RouteInit ==
  /\ routeIn \in [endpoint : Endpoints,
                  request : [intent : Intents, limit : Limits,
                             user_context : BodyContexts],
                  header : Headers]
  /\ routePc = "received"
  /\ routeCall = NoRouteCall
  /\ routeOut = "none"

\* broker.dispatch_query(intent, user_context, limit) is awaited.
CallBroker(user_context) ==
  /\ routePc = "received"
  /\ routePc' = "dispatching"
  /\ routeCall' = <<[intent |-> routeIn.request.intent,
                     user_context |-> user_context,
                     limit |-> routeIn.request.limit]>>
  /\ UNCHANGED <<routeIn, routeOut>>
  /\ UNCHANGED nonRouteVars

\* query_catalog of main.py.
MainQueryCatalog ==
  /\ routeIn.endpoint = "main.query_catalog"
  /\ CallBroker(MainUserContext(routeIn.request, routeIn.header))

\* query_catalog of api/routes.py.
RoutesQueryCatalog ==
  /\ routeIn.endpoint = "api.routes.query_catalog"
  /\ CallBroker(RoutesUserContext(routeIn.request, routeIn.header))

\* dispatch_query returns: 200 with the response.
BrokerReturns ==
  /\ routePc = "dispatching"
  /\ routePc' = "done"
  /\ routeOut' = "200"
  /\ UNCHANGED <<routeIn, routeCall>>
  /\ UNCHANGED nonRouteVars

\* dispatch_query raises: HTTPException 500.
BrokerRaises ==
  /\ routePc = "dispatching"
  /\ routePc' = "done"
  /\ routeOut' = "500"
  /\ UNCHANGED <<routeIn, routeCall>>
  /\ UNCHANGED nonRouteVars

RouteNext ==
  \/ MainQueryCatalog
  \/ RoutesQueryCatalog
  \/ BrokerReturns
  \/ BrokerRaises

\* ------------------------------------------------------- specifications

\* Every part at rest except the named ones.
Idle(parts) ==
  /\ IF "broker" \in parts THEN TRUE ELSE BrokerInit
  /\ IF "prov" \in parts THEN TRUE ELSE ProvIdle
  /\ IF "acl" \in parts THEN TRUE ELSE AclIdle
  /\ IF "store" \in parts THEN TRUE ELSE StoreIdle
  /\ IF "singleton" \in parts THEN TRUE ELSE SingletonIdle
  /\ IF "eval" \in parts THEN TRUE ELSE EvalIdle
  /\ IF "sse" \in parts THEN TRUE ELSE SseIdle
  /\ IF "route" \in parts THEN TRUE ELSE RouteIdle
  /\ IF "lifecycle" \in parts THEN TRUE ELSE LifecycleIdle
  /\ IF "registry" \in parts THEN TRUE ELSE RegistryIdle

Init == BrokerInit /\ Idle({"broker"})

Next == BrokerNext

\* The broker serving queries.
Spec == Init /\ [][Next]_vars

\* The steps an invocation that was called takes by itself.
Progress(q) ==
  \/ EmbedReturns(q)
  \/ EmbedRaises(q)
  \/ SearchReturns(q)
  \/ SearchRaises(q)
  \/ PolicyAllows(q)
  \/ PolicyDenies(q)
  \/ PolicyRaises(q)
  \/ NoAllowedSources(q)
  \/ FanOut(q)
  \/ \E i \in 1..MaxCandidates : TaskStart(q, i)
  \/ \E i \in 1..MaxCandidates : DispatchReturns(q, i)
  \/ \E i \in 1..MaxCandidates : DispatchRaises(q, i)
  \/ Respond(q)

\* The event loop runs every coroutine that is ready, the collaborators'
\* synchronous calls end, and every dispatch returns or raises.
SpecLive == Spec /\ \A q \in Queries : WF_vars(Progress(q))

\* The two callers: each has its own intent, user context and limit.
OwnIntent == [q \in Invocations |->
                IF q = "q1" THEN "find patients" ELSE "find trials"]

OwnUser == [q \in Invocations |->
              CHOOSE u \in UserContexts :
                u.user_id = (IF q = "q1" THEN "u1" ELSE "u2")]

OwnLimit == [q \in Invocations |-> IF q = "q1" THEN MaxCandidates ELSE 1]

SubmitOwn(q) == SubmitWith(q, {OwnIntent[q]}, {OwnUser[q]}, {OwnLimit[q]})

\* Two invocations on one broker, the second called while the first is
\* suspended in its dispatches or before or after it.
InFlightNext ==
  \E q \in Invocations : SubmitOwn(q) \/ Progress(q)

SpecInFlight == Init /\ [][InFlightNext]_vars

InitProv == ProvInit /\ Idle({"prov"})

NextProv ==
  ProvCall /\ UNCHANGED <<brokerVars, aclVars, storeVars, singletonVars,
                          evalVars, outerVars>>

\* generate_provenance applied to arbitrary results.
SpecProv == InitProv /\ [][NextProv]_vars

InitAcl == AclInit /\ Idle({"acl"})

NextAcl ==
  AclCall /\ UNCHANGED <<brokerVars, provVars, storeVars, singletonVars,
                         evalVars, outerVars>>

\* check_access applied to arbitrary acls, groups and claims.
SpecAcl == InitAcl /\ [][NextAcl]_vars

InitStore == StoreIdle /\ Idle({"store"})

\* add_source called one call at a time.
SpecStore == InitStore /\ [][StoreNextSerial]_vars

\* add_source called from two threads.
SpecStoreConcurrent == InitStore /\ [][StoreNextConcurrent]_vars

InitSingleton == SingletonIdle /\ Idle({"singleton"})

SpecSingletonClear == InitSingleton /\ [][SingletonClearNext]_vars

\* One singleton provider called from three threads.
SpecSingleton == InitSingleton /\ [][SingletonNext]_vars

InitEval == EvalInit /\ Idle({"eval"})

\* One evaluate_policy call, on any program, input and oracle behaviour.
SpecEval == InitEval /\ [][EvalNext]_vars

InitSse == SseInit /\ Idle({"sse"})

\* One dispatch call reading any stream of the lines above.
SpecSse == InitSse /\ [][SseNext]_vars

InitRegistry == RegistryInit /\ Idle({"registry"})

\* Registrations made one after the other on one registry.
SpecRegistry == InitRegistry /\ [][RegistryNext]_vars

InitLifecycle == LifecycleInit /\ Idle({"lifecycle"})

\* One dispatcher from construction on.
SpecLifecycle == InitLifecycle /\ [][LifecycleNext]_vars

InitRoute == RouteInit /\ Idle({"route"})

\* One POST /v1/query request.
SpecRoute == InitRoute /\ [][RouteNext]_vars

\* ---------------------------------------------------------------- claims

\* The invocations whose discovery succeeded: search returned candidates.
Discovered(q) == idx[q] > 0

UrnsOf(manifests) == {manifests[i].urn : i \in 1..Len(manifests)}

ResultUrns(q) ==
  {response[q].aggregated_results[i].source_urn :
     i \in 1..Len(response[q].aggregated_results)}

DispatchedUrns(q) == {calls[q].dispatch[i].urn : i \in 1..Len(calls[q].dispatch)}

\* C1: every response returned after discovery succeeded has partial_content
\* true exactly when one of its results has a status other than SUCCESS or
\* fewer sources were allowed than search returned candidates.
C1_PartialContentIff ==
  \A q \in Queries :
    (outcome[q] = "returned" /\ Discovered(q)) =>
      (PartialContent(response[q]) <=>
         \/ \E i \in 1..Len(response[q].aggregated_results) :
              response[q].aggregated_results[i].status # "SUCCESS"
         \/ Len(allowed_sources[q]) < Len(candidates[q]))

\* C2: a candidate for which check_access(candidate, user_context) is false
\* is never passed to Dispatcher.dispatch and has no SourceResult in
\* aggregated_results.
C2_AclGateDropsDenied ==
  \A q \in Queries :
    Discovered(q) =>
      \A k \in 1..Len(candidates[q]) :
        ~check_access(candidates[q][k], request[q].user_context) =>
          /\ candidates[q][k].urn \notin DispatchedUrns(q)
          /\ candidates[q][k].urn \notin ResultUrns(q)

\* C3: a candidate whose evaluate_policy call raised or returned false is
\* never allowed, never dispatched and has no entry in aggregated_results;
\* the exception does not leave dispatch_query, and the loop evaluates every
\* candidate before the fan-out.
C3_PolicyGateFailClosed ==
  \A q \in Queries :
    Discovered(q) =>
      /\ outcome[q] # "raised"
      /\ Len(calls[q].policy) = idx[q] - 1
      /\ pc[q] \in {"gather", "done"} => Len(calls[q].policy) = Len(candidates[q])
      /\ \A k \in 1..Len(calls[q].policy) :
           calls[q].policy[k].result # "True" =>
             /\ calls[q].policy[k].input.object.urn = candidates[q][k].urn
             /\ candidates[q][k].urn \notin UrnsOf(allowed_sources[q])
             /\ candidates[q][k].urn \notin DispatchedUrns(q)
             /\ candidates[q][k].urn \notin ResultUrns(q)

\* A query answered with a result although an earlier candidate's policy
\* evaluation raised.
C3_Witness ==
  \E q \in Queries :
    /\ outcome[q] = "returned"
    /\ Len(response[q].aggregated_results) >= 1
    /\ \E k, j \in 1..Len(calls[q].policy) :
         /\ k < j
         /\ calls[q].policy[k].result = "raise"
         /\ calls[q].policy[j].result = "True"

C5_FailuresDoNotAbortSiblings ==
  \A q \in Queries :
    (pc[q] = "done" /\ tasks[q] # <<>>) =>
      /\ outcome[q] = "returned"
      /\ Len(response[q].aggregated_results) = Len(allowed_sources[q])
      /\ \A i \in 1..Len(allowed_sources[q]) :
           /\ response[q].aggregated_results[i].source_urn = allowed_sources[q][i].urn
           /\ tasks[q][i].ret.kind = "returned" =>
                response[q].aggregated_results[i].status = "SUCCESS"

\* A response over two sources of which one dispatch raised and the other
\* returned.
C5_Witness ==
  \E q \in Queries :
    /\ outcome[q] = "returned"
    /\ \E i, j \in 1..Len(tasks[q]) :
         /\ tasks[q][i].ret.kind = "raised"
         /\ tasks[q][j].ret.kind = "returned"
         /\ response[q].aggregated_results[j].status = "SUCCESS"

\* C6: a response is returned only once every dispatch task of the query has
\* completed, and it is assembled from the completed tasks' results.
C6_ResponseAfterAllTasks ==
  \A q \in Queries :
    outcome[q] = "returned" =>
      /\ \A i \in 1..Len(tasks[q]) : tasks[q][i].state = "done"
      /\ Discovered(q) => response[q].aggregated_results = Results(q)

\* A response returned for a query that started two tasks.
C6_Witness ==
  \E q \in Queries :
    /\ outcome[q] = "returned"
    /\ Len(tasks[q]) >= 2
    /\ Len(calls[q].dispatch) >= 2

\* C7: a SourceResult is SUCCESS with the dispatch's return value exactly
\* when the dispatch returned, and ERROR with {"error": str(e)} when it
\* raised e.
C7_StatusFollowsDispatch ==
  \A q \in Queries :
    \A i \in 1..Len(tasks[q]) :
      tasks[q][i].state = "done" =>
        LET r == IF outcome[q] = "returned"
                 THEN response[q].aggregated_results[i]
                 ELSE tasks[q][i].result
        IN  /\ r.source_urn = allowed_sources[q][i].urn
            /\ r.status = "SUCCESS" <=> tasks[q][i].ret.kind = "returned"
            /\ tasks[q][i].ret.kind = "returned" => r.data = tasks[q][i].ret.value
            /\ tasks[q][i].ret.kind = "raised" =>
                 /\ r.status = "ERROR"
                 /\ r.data = [error |-> Str(tasks[q][i].ret.exc)]

\* A response holding an ERROR result with the exception's message.
C7_Witness ==
  \E q \in Queries :
    /\ outcome[q] = "returned"
    /\ \E i \in 1..Len(response[q].aggregated_results) :
         /\ response[q].aggregated_results[i].status = "ERROR"
         /\ response[q].aggregated_results[i].data = [error |-> "Connection Timeout"]

\* C8: once the Embedder has raised, the invocation has returned the empty
\* response signed "ERROR: Embedding Failed", and search, the policy gate and
\* the Dispatcher are never called for it.
C8_EmbeddingFailure ==
  \A q \in Queries :
    (calls[q].embed # <<>> /\ calls[q].embed[1].result = "raise") =>
      /\ outcome[q] = "returned"
      /\ response[q].query_id = query_id[q]
      /\ response[q].aggregated_results = <<>>
      /\ response[q].provenance_signature = <<"ERROR: Embedding Failed">>
      /\ calls[q].search = <<>>
      /\ calls[q].policy = <<>>
      /\ calls[q].dispatch = <<>>

\* An invocation whose embed call raised.
C8_Witness ==
  \E q \in Queries :
    /\ pc[q] = "done"
    /\ calls[q].embed # <<>>
    /\ calls[q].embed[1].result = "raise"

\* C9: once search has raised, the invocation has returned the empty response
\* signed "ERROR: Search Failed", and neither the policy gate nor the
\* Dispatcher is ever called for it.
C9_SearchFailure ==
  \A q \in Queries :
    (calls[q].search # <<>> /\ calls[q].search[1].result = "raise") =>
      /\ outcome[q] = "returned"
      /\ response[q].query_id = query_id[q]
      /\ response[q].aggregated_results = <<>>
      /\ response[q].provenance_signature = <<"ERROR: Search Failed">>
      /\ calls[q].policy = <<>>
      /\ calls[q].dispatch = <<>>

\* An invocation whose search call raised after the embedding succeeded.
C9_Witness ==
  \E q \in Queries :
    /\ pc[q] = "done"
    /\ calls[q].embed # <<>>
    /\ calls[q].embed[1].result = "returned"
    /\ calls[q].search # <<>>
    /\ calls[q].search[1].result = "raise"

SuccessUrns(results) ==
  {results[i].source_urn : i \in {j \in 1..Len(results) : results[j].status = "SUCCESS"}}

\* C10: the document generate_provenance returns has a prov:used list exactly
\* when some result is SUCCESS, and the URNs listed are those of the SUCCESS
\* results.
C10_UsedIsSuccessSet ==
  provOut # <<>> =>
    /\ HasUsed(provOut) <=> SuccessUrns(provIn.results) # {}
    /\ HasUsed(provOut) => UsedOf(provOut) = SuccessUrns(provIn.results)

\* A document generated from results of which one is SUCCESS and the others
\* are not.
C10_Witness ==
  /\ provOut # <<>>
  /\ HasUsed(provOut)
  /\ \E i, j, k \in 1..Len(provIn.results) :
       /\ provIn.results[i].status = "SUCCESS"
       /\ provIn.results[j].status = "BLOCKED_BY_POLICY"
       /\ provIn.results[k].status = "ERROR"
       /\ provIn.results[j].source_urn \notin UsedOf(provOut)
       /\ provIn.results[k].source_urn \notin UsedOf(provOut)

\* The prov:used list of a signature, in the order it was serialized.
UsedList(sig) ==
  LET k == CHOOSE i \in UsedKeyAt(sig) : TRUE
      close == CHOOSE j \in (k + 2)..Len(sig) :
                 sig[j] = "]" /\ \A h \in (k + 2)..(j - 1) : sig[h] # "]"
  IN  SelectSeq(SubSeq(sig, k + 3, close - 1), LAMBDA t : t # ",")

\* The URNs of the catalog in string order (code points, as sorted() compares).
UrnOrder == <<"urn:eu", "urn:open", "urn:us">>

UrnRank(quoted) == CHOOSE i \in 1..Len(UrnOrder) : Quote(UrnOrder[i]) = quoted

SortedByUrn(l) ==
  \A i, j \in 1..Len(l) : i < j => UrnRank(l[i]) <= UrnRank(l[j])

\* Every reordering of a results list.
Reorderings(results) ==
  LET n == Len(results)
      bij == {f \in [1..n -> 1..n] : \A i, j \in 1..n : f[i] = f[j] => i = j}
  IN  {[i \in 1..n |-> results[f[i]]] : f \in bij}

\* C11: the prov:used list of the document is in URN order, and the document
\* generated from any reordering of the same results, for the same query and
\* the same end time, is the same sequence of tokens.
C11_UsedSortedDeterministic ==
  provOut # <<>> =>
    /\ HasUsed(provOut) => SortedByUrn(UsedList(provOut))
    /\ \A reordered \in Reorderings(provIn.results) :
         GenerateProvenance(provIn.query_id, reordered, provIn.timestamp) = provOut

\* C12: check_access returns true exactly when the service-account claim is
\* the boolean True or some identifier of the asset's acls is, character for
\* character, one of the user's groups; with empty acls every caller that is
\* not a service account is denied.
C12_CheckAccessIff ==
  aclOut # <<>> =>
    LET acls == aclIn.asset.acls
        groups == aclIn.user_context.groups
        service == aclIn.user_context.claims.is_service_account = "True"
    IN  /\ aclOut[1] <=> (service \/ \E a \in acls : \E g \in groups : a = g)
        /\ (acls = {} /\ ~service) => aclOut[1] = FALSE

\* A caller whose claim is truthy but not True, and whose only group differs
\* from the asset's only acl in case, was denied.
C12_Witness ==
  /\ aclOut = <<FALSE>>
  /\ aclIn.user_context.claims.is_service_account = "1"
  /\ aclIn.asset.acls = {"group:admin"}
  /\ aclIn.user_context.groups = {"Group:Admin"}

\* No add_source call is in progress.
Quiescent == \A w \in Writers : ~InCall(w)

RowsOf(urn) == SelectSeq(table, LAMBDA r : r.urn = urn)

\* The positions in storeLog of the calls made for urn, and of those among
\* them that returned.
CallsFor(urn) == {i \in 1..Len(storeLog) : storeLog[i].manifest.urn = urn}

ReturnedFor(urn) == {i \in CallsFor(urn) : storeLog[i].result = "OK"}

Last(positions) == CHOOSE i \in positions : \A j \in positions : j <= i

RowOfCall(i) == Row(storeLog[i].manifest, storeLog[i].embedding)

C14_LastWriterWins ==
  Quiescent =>
    \A u \in StoreUrns :
      ReturnedFor(u) # {} =>
        /\ Len(RowsOf(u)) = 1
        /\ \E i \in ReturnedFor(u) : RowsOf(u)[1] = RowOfCall(i)

Returned == {i \in 1..Len(providerLog) : providerLog[i].kind = "returned"}

\* C16: whatever the interleaving of the threads calling one provider, the
\* factory builds an object at most once and every call that returns hands
\* out that one object.
C16_OneConstruction ==
  /\ factoryCalls.returned <= 1
  /\ \A i \in Returned :
       /\ factoryCalls.returned = 1
       /\ providerLog[i].value = Object(1)

\* Three threads all found instance None at the first test, and all three
\* calls returned.
C16_Witness ==
  /\ Len(providerLog) = 3
  /\ \A i \in 1..3 : providerLog[i].kind = "returned" /\ providerLog[i].waited
  /\ {providerLog[i].thread : i \in 1..3} = Threads
  /\ factoryCalls = [returned |-> 1, raised |-> 0]

\* C17: a factory call that raised leaves nothing behind: the lock is held
\* only by a thread inside the with block, instance is None until a factory
\* call has returned, the raising call ends raised with no value, and a call
\* that returns hands out an object a factory call built.
C17_FailureNotCached ==
  /\ lock # "free" => callers[lock].pc = "locked"
  /\ factoryCalls.returned = 0 => instance = None
  /\ factoryCalls.returned > 0 => instance = Object(factoryCalls.returned)
  /\ \A i \in 1..Len(providerLog) :
       IF providerLog[i].kind = "raised"
       THEN providerLog[i].value = None
       ELSE \E k \in 1..factoryCalls.returned : providerLog[i].value = Object(k)

\* The first call raised; the same thread called again, the factory ran a
\* second time and the call returned the object it built.
C17_Witness ==
  /\ Len(providerLog) = 2
  /\ providerLog[1].kind = "raised"
  /\ providerLog[2].kind = "returned"
  /\ providerLog[2].thread = providerLog[1].thread
  /\ providerLog[2].value = Object(1)
  /\ factoryCalls = [returned |-> 1, raised |-> 1]
  /\ lock = "free"

\* C18: when an evaluate_policy call has ended, by a return or by any
\* exception, no temporary file it created exists any more.
C18_TempFilesRemoved ==
  evPc = "ended" => files \cap created = {}

\* The first expression of the first result of the oracle's output has the
\* boolean true as its value.
FirstValueIsTrue(output) ==
  /\ "result" \in DOMAIN output
  /\ output.result # <<>>
  /\ "expressions" \in DOMAIN output.result[1]
  /\ output.result[1].expressions # <<>>
  /\ "value" \in DOMAIN output.result[1].expressions[1]
  /\ output.result[1].expressions[1].value = [bool |-> TRUE]

\* C19: a call that returned true ran the oracle, which exited with 0 and
\* printed an output whose first result's first expression has the value
\* true; a call whose oracle exited with 0 and printed any other JSON object
\* (no result, empty result, no expressions, no value, a value that is not
\* a boolean, or false) returned false.
C19_TrueOnlyOnBooleanTrue ==
  evPc = "ended" =>
    /\ evOut = EvalReturns(TRUE) =>
         /\ oracleRuns # <<>>
         /\ oracleRuns[1].ended.how = "exit 0"
         /\ "json" \in DOMAIN oracleRuns[1].ended.stdout
         /\ FirstValueIsTrue(oracleRuns[1].ended.stdout.json)
    /\ \A i \in 1..Len(oracleRuns) :
         LET ended == oracleRuns[i].ended
         IN  ( /\ ended.how = "exit 0"
               /\ "json" \in DOMAIN ended.stdout
               /\ ~FirstValueIsTrue(ended.stdout.json) )
             => evOut = EvalReturns(FALSE)

\* The oracle printed {"result": [{"expressions": [{"value": "some string"}]}]}
\* and the call returned false.
C19_Witness ==
  /\ evPc = "ended"
  /\ evOut = EvalReturns(FALSE)
  /\ oracleRuns # <<>>
  /\ oracleRuns[1].ended =
       [how |-> "exit 0",
        stdout |-> [json |-> [result |-> << [expressions |->
                      << [value |-> [str |-> "some string"]] >>] >>]]]

\* C20: a call whose program is empty or only whitespace ends by returning
\* false; the oracle was not run and no temporary file was created.
C20_EmptyProgramDenied ==
  (evPc = "ended" /\ Range(evIn.policy_code) \subseteq Whitespace) =>
    /\ evOut = EvalReturns(FALSE)
    /\ oracleRuns = <<>>
    /\ created = {}

\* The events of the stream read so far, from its lines alone.  An event is
\* terminated by a line of whitespace only or, once dispatch has returned,
\* by the end of the stream.
Terminators ==
  {i \in 1..Len(sseRead) : Range(sseRead[i]) \subseteq Whitespace}
  \cup (IF ssePc = "returned" THEN {Len(sseRead) + 1} ELSE {})

\* The data: lines between the terminator before t and t.
DataLinesBefore(t) ==
  LET earlier == {u \in Terminators : u < t}
      start == IF earlier = {} THEN 1
               ELSE 1 + CHOOSE u \in earlier : \A v \in earlier : v <= u
  IN  SelectSeq(SubSeq(sseRead, start, t - 1),
                LAMBDA l : l # <<>> /\ l[1] = "data:")

\* What a data: line contributes: what follows "data:", less one space.
Remainder(line) ==
  IF Len(line) >= 2 /\ line[2] = " "
  THEN SubSeq(line, 3, Len(line))
  ELSE SubSeq(line, 2, Len(line))

RECURSIVE Flatten(_)
Flatten(parts) ==
  IF parts = <<>> THEN <<>>
  ELSE Flatten(SubSeq(parts, 1, Len(parts) - 1)) \o parts[Len(parts)]

EventText(t) ==
  LET lines == DataLinesBefore(t)
  IN  Flatten([i \in 1..Len(lines) |-> Remainder(lines[i])])

\* The texts of the terminated events that have a data: line, among the
\* first k positions of the stream, in stream order.
RECURSIVE EventTexts(_)
EventTexts(k) ==
  IF k = 0 THEN <<>>
  ELSE EventTexts(k - 1) \o
       (IF k \in Terminators /\ DataLinesBefore(k) # <<>>
        THEN <<EventText(k)>> ELSE <<>>)

AllEventTexts == EventTexts(Len(sseRead) + 1)

\* C21: each terminated event that has data: lines was handed to json.loads
\* once, as one text: the remainders of its data: lines, each less one
\* leading space, one after the other with nothing in between; and it gave
\* at most one payload.
C21_MultiLineEventOnePayload ==
  /\ attempts = AllEventTexts
  /\ Len(sseResults) <= Len(attempts)

\* The event "data: {", "data:\"k\":1", "data: }" was read, the stream
\* ended and the event gave the one payload {"k": 1}.
C21_Witness ==
  /\ ssePc = "returned"
  /\ sseRead = << <<"data:", " ", "{">>, <<"data:", "\"k\":1">>,
                  <<"data:", " ", "}">> >>
  /\ attempts = << <<"{", "\"k\":1", "}">> >>
  /\ sseResults = << {"\"k\":1"} >>

\* The payloads of the events whose text parses, in stream order.
ParseableEvents ==
  LET good == SelectSeq(AllEventTexts, LAMBDA text : JsonLoads(text).ok)
  IN  [i \in 1..Len(good) |-> JsonLoads(good[i]).value]

\* C22: an event that does not parse is dropped and nothing else: results
\* holds the payloads of the parseable events read so far, in stream order;
\* dispatch raises only on a transport error; and what it returns is
\* results.
C22_MalformedEventDropped ==
  /\ sseResults = ParseableEvents
  /\ ssePc = "raised" => sseOut.error \in TransportErrors
  /\ ssePc = "returned" => sseOut = [kind |-> "returned",
                                     value |-> ParseableEvents,
                                     error |-> "none"]

\* A malformed event was followed by a well-formed one: the stream
\* "data: INVALID", blank, "data: {}" ended and dispatch returned the one
\* payload.
C22_Witness ==
  /\ ssePc = "returned"
  /\ sseRead = << <<"data:", " ", "INVALID">>, <<>>,
                  <<"data:", " ", "{", "}">> >>
  /\ attempts = << <<"INVALID">>, <<"{", "}">> >>
  /\ sseOut.value = << {} >>

\* C23: close() calls aclose on the dispatcher's client when the constructor
\* was given no client, and calls nothing when it was given one: a client
\* handed in is never closed, a client the dispatcher made is closed once
\* close() has run, and nothing is closed before close().
C23_CloseReleasesOwnedClientOnly ==
  LET closes == {i \in DOMAIN clientLog : clientLog[i].op = "aclose"}
  IN  /\ \A i \in closes :
           ctorClient = "None" /\ clientLog[i].client = "own"
      /\ lcPc = "closed" /\ ctorClient = "None" => closes # {}
      /\ lcPc = "open" => closes = {}

C23_Witness ==
  /\ ctorClient = "None"
  /\ lcPc = "closed"
  /\ clientLog = <<[client |-> "own", op |-> "stream",
                    url |-> <<"h", "t", "t", "p", ":", "/", "/", "h">>,
                    intent |-> "find patients"],
                   [client |-> "own", op |-> "aclose"]>>

C23_WitnessShared ==
  /\ ctorClient = "shared"
  /\ lcPc = "closed"
  /\ clientLog = <<[client |-> "shared", op |-> "stream",
                    url |-> <<"h", "t", "t", "p", "s", ":", "/", "/", "h">>,
                    intent |-> "find patients"]>>

\* C24: the context dispatch_query is called with is the header's when the
\* X-User-Context header was sent and is the JSON of a UserContext, and the
\* body's when it was not sent or is anything else.
C24_HeaderContextOverrides ==
  routeCall # NoRouteCall =>
    LET header == routeIn.header
        valid == /\ "json" \in DOMAIN header
                 /\ DOMAIN header.json = {"user_id", "email", "groups"}
    IN  routeCall[1].user_context =
          IF valid THEN header.json ELSE routeIn.request.user_context

\* C25: every register_source call that ended called embed_text first and
\* add_source, if at all, second and once; when embed_text raised or the
\* embedding had not the declared dimension it raised ValueError, add_source
\* was not called and the index is as it was; when add_source raised it
\* raised RuntimeError; otherwise it returned and the row is in the index.
C25_RegisterStopsAtFirstFailure ==
  \A i \in DOMAIN regLog :
    LET r == regLog[i]
        failedEarly == \/ r.embedded = <<>>
                       \/ r.embedded[1].len # regDim
    IN  /\ r.made \in {<<"embed_text">>, <<"embed_text", "add_source">>}
        /\ r.result \in {"OK", "ValueError", "RuntimeError"}
        /\ failedEarly <=> r.result = "ValueError"
        /\ failedEarly <=> r.made = <<"embed_text">>
        /\ failedEarly => r.after = r.before
        /\ r.result = "OK" =>
             r.after = Add(Delete(r.before, r.manifest.urn),
                           Row(r.manifest, r.embedded[1]))

C25_Witness ==
  /\ Len(regLog) = 2
  /\ regLog[1].result = "OK"
  /\ regLog[2].embedded = <<BadEmbedding>>
  /\ regLog[2].result = "ValueError"
  /\ regDim = EmbeddingDim
  /\ regIndex = <<Row(regLog[1].manifest, GoodEmbedding)>>

\* The candidates the governance loop dropped: evaluate_policy returned
\* False or raised for them.
DroppedUrns(q) ==
  {calls[q].policy[k].input.object.urn :
     k \in {j \in 1..Len(calls[q].policy) : calls[q].policy[j].result # "True"}}

\* C26: within one invocation no source is dispatched to twice, every
\* dispatch is to an allowed source with the request's intent, none is to a
\* candidate the governance loop dropped, and by the time the invocation has
\* answered from its tasks every allowed source was dispatched to once,
\* whether its dispatch returned or raised.
C26_DispatchOncePerAllowedSource ==
  \A q \in Queries :
    LET d == calls[q].dispatch
    IN  /\ \A i, j \in 1..Len(d) : d[i].urn = d[j].urn => i = j
        /\ DispatchedUrns(q) \subseteq UrnsOf(allowed_sources[q])
        /\ DispatchedUrns(q) \cap DroppedUrns(q) = {}
        /\ (pc[q] = "done" /\ tasks[q] # <<>>) =>
             /\ Len(d) = Len(allowed_sources[q])
             /\ DispatchedUrns(q) = UrnsOf(allowed_sources[q])

\* An answered invocation with one candidate dropped and one allowed, whose
\* only dispatch raised.
C26_Witness ==
  \E q \in Queries :
    /\ outcome[q] = "returned"
    /\ Len(candidates[q]) = 2
    /\ calls[q].policy[1].result = "False"
    /\ Len(tasks[q]) = 1
    /\ tasks[q][1].ret.kind = "raised"
    /\ Len(calls[q].dispatch) = 1
    /\ calls[q].dispatch[1].urn = candidates[q][2].urn

\* The state of the k-th candidate of an invocation: not yet looked at by the
\* governance loop, dropped by it, or allowed, in which case it follows its
\* query_source task.
CandState(q, k) ==
  IF k >= idx[q] THEN "candidate"
  ELSE IF candidates[q][k].urn \notin UrnsOf(allowed_sources[q])
  THEN "blocked_by_policy"
  ELSE LET j == CHOOSE n \in 1..Len(allowed_sources[q]) :
                  allowed_sources[q][n].urn = candidates[q][k].urn
       IN  IF j > Len(tasks[q]) \/ tasks[q][j].state = "pending"
           THEN "allowed"
           ELSE IF tasks[q][j].state = "running" THEN "dispatching"
           ELSE IF tasks[q][j].result.status = "SUCCESS" THEN "success"
           ELSE IF tasks[q][j].result.status = "ERROR" THEN "error"
           ELSE "lost"

TerminalStates == {"success", "error", "blocked_by_acl", "blocked_by_policy"}

CandSteps ==
  { <<"candidate", "allowed">>, <<"allowed", "dispatching">>,
    <<"dispatching", "success">>, <<"dispatching", "error">>,
    <<"candidate", "blocked_by_acl">>, <<"candidate", "blocked_by_policy">> }

\* A step changes the state of a candidate only along CandSteps.
CandStepsOnly ==
  \A q \in Queries :
    \A k \in 1..Len(candidates[q]) :
      \/ CandState(q, k)' = CandState(q, k)
      \/ <<CandState(q, k), CandState(q, k)'>> \in CandSteps

\* C27: a candidate changes state only along candidate -> allowed ->
\* dispatching -> {success, error} or candidate -> blocked, and, dispatches
\* returning or raising eventually, an invocation whose search returned
\* candidates comes to return with every candidate in a terminal state.
C27_CandidatesReachTerminalState ==
  /\ [][CandStepsOnly]_vars
  /\ \A q \in Queries :
       (pc[q] = "govern") ~>
         /\ outcome[q] = "returned"
         /\ \A k \in 1..Len(candidates[q]) : CandState(q, k) \in TerminalStates

\* A returned invocation whose first candidate ended in success and whose
\* second was dropped because its policy evaluation raised.
C27_Witness ==
  \E q \in Queries :
    /\ outcome[q] = "returned"
    /\ Len(candidates[q]) = 2
    /\ calls[q].policy[2].result = "raise"
    /\ CandState(q, 1) = "success"
    /\ CandState(q, 2) = "blocked_by_policy"

\* C28: an invocation that returned because governance left no allowed
\* source carries no results and the provenance of the empty result set for
\* its query_id, has called the dispatcher not once, and its response's
\* partial_content is true exactly when a candidate was dropped.
C28_NoAllowedSources ==
  \A q \in Queries :
    (outcome[q] = "returned" /\ Discovered(q) /\ allowed_sources[q] = <<>>) =>
      /\ response[q].query_id = query_id[q]
      /\ response[q].aggregated_results = <<>>
      /\ \E ts \in Timestamps :
           response[q].provenance_signature =
             GenerateProvenance(query_id[q], <<>>, ts)
      /\ calls[q].dispatch = <<>>
      /\ PartialContent(response[q]) <=> candidates[q] # <<>>

\* C29: when a candidate was dropped by the policy gate and every dispatch
\* returned, the response holds one SUCCESS result per allowed source, none
\* for the dropped candidates, and a partial_content that is false.
C29_BlockedAndSuccessNotPartial ==
  \A q \in Queries :
    ( /\ outcome[q] = "returned"
      /\ tasks[q] # <<>>
      /\ Len(allowed_sources[q]) < Len(candidates[q])
      /\ \A i \in 1..Len(tasks[q]) : tasks[q][i].ret.kind = "returned" ) =>
      /\ ResultUrns(q) = UrnsOf(allowed_sources[q])
      /\ Len(response[q].aggregated_results) = Len(allowed_sources[q])
      /\ \A i \in 1..Len(response[q].aggregated_results) :
           response[q].aggregated_results[i].status = "SUCCESS"
      /\ "partial_content" \in DOMAIN response[q]
      /\ response[q].partial_content = FALSE

\* C30: with two invocations on one broker, interleaved in every way their
\* dispatches allow, each response carries the query_id of its own
\* invocation, different from the other's, and each of its results is of a
\* source that this invocation's own policy call, made with its own user
\* context, allowed, and that it dispatched to with its own intent.
C30_NoSharedRequestState ==
  \A q \in Invocations :
    outcome[q] = "returned" =>
      /\ response[q].query_id = UuidPool[q]
      /\ \A p \in Invocations \ {q} :
           outcome[p] = "returned" => response[p].query_id # response[q].query_id
      /\ \A i \in 1..Len(calls[q].dispatch) :
           calls[q].dispatch[i].intent = OwnIntent[q]
      /\ \A i \in 1..Len(response[q].aggregated_results) :
           LET urn == response[q].aggregated_results[i].source_urn
           IN  /\ \E k \in 1..Len(calls[q].policy) :
                    /\ calls[q].policy[k].input.subject = OwnUser[q]
                    /\ calls[q].policy[k].input.object.urn = urn
                    /\ calls[q].policy[k].result = "True"
               /\ \E k \in 1..Len(calls[q].dispatch) :
                    calls[q].dispatch[k].urn = urn

\* Both invocations have returned, the second was called while the first
\* was suspended in its dispatches, and their results are of different
\* sources.
C30_Witness ==
  /\ outcome["q1"] = "returned"
  /\ outcome["q2"] = "returned"
  /\ calls["q2"].during = {"q1"}
  /\ ResultUrns("q1") = {"urn:us", "urn:eu"}
  /\ ResultUrns("q2") = {"urn:open"}
  /\ response["q1"].query_id # response["q2"].query_id

\* The package declarations of a program as Rego reads it: the word package
\* at the start of a line (a comment runs from # to the end of its line).
Declarations(policy_code) ==
  {i \in 1..Len(policy_code) :
     /\ policy_code[i] = "package"
     /\ i = 1 \/ policy_code[i - 1] = "\n"}

\* The name a declaration declares, in <<>>, or <<>> when none can be read.
DeclaredName(policy_code, i) ==
  IF /\ i + 2 <= Len(policy_code)
     /\ policy_code[i + 1] = " "
     /\ policy_code[i + 2] \in Identifiers
  THEN <<policy_code[i + 2]>>
  ELSE <<>>

\* C31: every oracle run is given the program prefixed with "package match"
\* and the query data.match.allow when the program declares no package, the
\* program unchanged and the query data.<pkg>.allow when it declares the
\* package pkg, and the query data.match.allow when the declared name cannot
\* be read.
C31_QueryFollowsPackageDeclaration ==
  \A k \in 1..Len(oracleRuns) :
    LET policy_code == evIn.policy_code
        decls == Declarations(policy_code)
        asked == oracleRuns[k].cmd[Len(oracleRuns[k].cmd)]
    IN  IF decls = {}
        THEN /\ oracleRuns[k].policy =
                  <<"package", " ", "match", "\n", "\n">> \o policy_code
             /\ asked = "data.match.allow"
        ELSE LET name == DeclaredName(policy_code,
                                      CHOOSE i \in decls : \A j \in decls : i <= j)
             IN  IF name = <<>>
                 THEN asked = "data.match.allow"
                 ELSE /\ oracleRuns[k].policy = policy_code
                      /\ asked = "data." \o name[1] \o ".allow"

IgnoredLine(line) ==
  line # <<>> /\ Head(line) \in {":", "id:", "event:", "retry:"}

\* The pending buffer holds data: lines and all of them are empty.
KeepAlivePending == buffer # <<>> /\ Flatten(buffer) = <<>>

\* C33: reading a line that begins with ":", "id:", "event:" or "retry:"
\* changes neither the buffer nor the results, whatever was read before
\* it; and the end of an event whose data: lines are all empty adds no
\* payload to the results or to what dispatch returns.
C33_IgnoredLinesAndKeepAlive ==
  [][ /\ \A line \in SseLines :
           (IgnoredLine(line) /\ sseRead' = Append(sseRead, line)) =>
             /\ buffer' = buffer
             /\ sseResults' = sseResults
             /\ attempts' = attempts
      /\ (KeepAlivePending /\ buffer' = <<>>) =>
           /\ sseResults' = sseResults
           /\ ssePc' = "returned" => sseOut'.value = sseResults ]_vars

\* A comment came between the two data: lines of one event, and the event
\* gave the payload {}.
C33_Witness ==
  /\ ssePc = "returned"
  /\ sseRead = << <<"data:", " ", "{">>, <<":", "ping">>,
                  <<"data:", " ", "}">> >>
  /\ sseOut.value = << {} >>

\* A keep-alive event was read and ended, and there is no payload.
C33_WitnessKeepAlive ==
  /\ ssePc = "returned"
  /\ sseRead = << <<"data:">>, <<>> >>
  /\ attempts = << <<>> >>
  /\ sseOut.value = <<>>

\* What terminating the current event makes of results: the payload of the
\* pending buffer is appended when its text parses, nothing changes when it
\* does not or when nothing is pending.
AfterTermination ==
  LET pending == JsonLoads(Flatten(buffer))
  IN  IF buffer # <<>> /\ pending.ok
      THEN Append(sseResults, pending.value)
      ELSE sseResults

\* C34: the end of the stream terminates the current event as a blank line
\* does: in both steps results becomes what the termination of the pending
\* event makes of it, and at the end of the stream that is what dispatch
\* returns.
C34_EndOfStreamTerminatesEvent ==
  [][ /\ (\E line \in SseLines :
            IsBlank(line) /\ sseRead' = Append(sseRead, line)) =>
           /\ sseResults' = AfterTermination
           /\ buffer' = <<>>
      /\ (ssePc = "reading" /\ ssePc' = "returned") =>
           /\ sseResults' = AfterTermination
           /\ sseOut' = [kind |-> "returned", value |-> AfterTermination,
                         error |-> "none"] ]_vars

\* The stream was the one line "data: {}" with no blank line after it, and
\* dispatch returned the payload {}.
C34_Witness ==
  /\ ssePc = "returned"
  /\ sseRead = << <<"data:", " ", "{", "}">> >>
  /\ sseOut.value = << {} >>

\* The candidates the policy engine allowed, among the first k, in the
\* order of the search.
RECURSIVE AllowedAmong(_, _)
AllowedAmong(q, k) ==
  IF k = 0 THEN <<>>
  ELSE AllowedAmong(q, k - 1) \o
       (IF calls[q].policy[k].result = "True" THEN <<candidates[q][k]>>
        ELSE <<>>)

\* C35: in a returned response the i-th result is of the i-th allowed
\* source, and the allowed sources are the candidates the policy engine
\* allowed in the order of the search, in whatever order the dispatches
\* ended.
C35_ResultsInAllowedOrder ==
  \A q \in Queries :
    outcome[q] = "returned" =>
      LET allowed == AllowedAmong(q, Len(calls[q].policy))
          results == response[q].aggregated_results
      IN  /\ allowed_sources[q] = allowed
          /\ Len(results) = Len(allowed)
          /\ \A i \in 1..Len(results) : results[i].source_urn = allowed[i].urn

\* Two sources were allowed, the dispatch to the second ended before the
\* dispatch to the first, and the response was returned.
C35_Witness ==
  \E q \in Queries :
    /\ outcome[q] = "returned"
    /\ calls[q].completed = <<2, 1>>
    /\ Len(response[q].aggregated_results) = 2
    /\ response[q].aggregated_results[1].source_urn # response[q].aggregated_results[2].source_urn

\* The caller of q is a service account.
ServiceAccount(q) ==
  /\ "claims" \in DOMAIN request[q].user_context
  /\ request[q].user_context.claims.is_service_account = "True"

\* C39: for a caller whose claims have is_service_account = true, a
\* candidate whose policy evaluation returned false or raised is not among
\* the allowed sources and no dispatch is made to it: the claim opens no
\* way around the policy gate.
C39_NoBypassOfPolicyGate ==
  \A q \in Queries :
    (ServiceAccount(q) /\ Discovered(q)) =>
      \A k \in 1..Len(calls[q].policy) :
        calls[q].policy[k].result \in {"False", "raise"} =>
          /\ calls[q].policy[k].input.subject = request[q].user_context
          /\ \A i \in 1..Len(allowed_sources[q]) :
               allowed_sources[q][i] # candidates[q][k]
          /\ \A i \in 1..Len(calls[q].dispatch) :
               calls[q].dispatch[i].urn # candidates[q][k].urn

\* A service account's query was answered: the policy denied one candidate
\* and allowed another, and the one dispatch went to the allowed one.
C39_Witness ==
  \E q \in Queries :
    /\ ServiceAccount(q)
    /\ outcome[q] = "returned"
    /\ Len(calls[q].policy) = 2
    /\ calls[q].policy[1].result = "False"
    /\ calls[q].policy[2].result = "True"
    /\ Len(calls[q].dispatch) = 1
    /\ calls[q].dispatch[1].urn = candidates[q][2].urn

\* C36: every manifest a search returns is the manifest of a successful
\* add_source call in urn, acls, geo_location, sensitivity, owner_group and
\* access_policy.
C36_UpsertSearchRoundTrip ==
  LET found == search(table)
  IN  \A k \in 1..Len(found) :
        \E i \in 1..Len(storeLog) :
          LET m == storeLog[i].manifest
          IN  /\ storeLog[i].result = "OK"
              /\ found[k].urn = m.urn
              /\ "acls" \in DOMAIN found[k]
              /\ found[k].acls = m.acls
              /\ found[k].geo_location = m.geo_location
              /\ found[k].sensitivity = m.sensitivity
              /\ found[k].owner_group = m.owner_group
              /\ found[k].access_policy = m.access_policy

\* C37: between calls made one at a time, when the latest add_source call
\* for a URN failed (ValueError on the dimension, or RuntimeError on a
\* storage fault) and an earlier call for it had returned, the row of that
\* earlier call is still the one row of the URN.
C37_FailedUpsertLeavesIndex ==
  Quiescent =>
    \A u \in StoreUrns :
      ( /\ ReturnedFor(u) # {}
        /\ storeLog[Last(CallsFor(u))].result # "OK" ) =>
        RowsOf(u) = <<RowOfCall(Last(ReturnedFor(u)))>>

\* No provider call or cache_clear call is in progress.
NoCallInProgress == \A t \in Threads : ~InWrapper(t)

\* C38: whatever the interleaving of provider calls and cache_clear calls,
\* a provider call that returns hands out an object the factory built, never
\* None; and when a cache_clear call was the last call to end, instance is
\* None, so that the next provider call builds a new object.
C38_NeverReturnsNone ==
  /\ \A i \in 1..Len(providerLog) :
       providerLog[i].kind = "returned" =>
         /\ providerLog[i].value # None
         /\ \E k \in 1..factoryCalls.returned : providerLog[i].value = Object(k)
  /\ ( /\ NoCallInProgress
       /\ providerLog # <<>>
       /\ providerLog[Len(providerLog)].kind = "cleared" ) => instance = None

====
